---- MODULE Spec2Model ----
(***************************************************************************)
(* Sliding-window rate limiter of the Mini Agent Platform.                 *)
(*                                                                         *)
(* Two storage backends implement the same interface:                      *)
(*   InMemoryRateLimitBackend  (app/services/rate_limit_memory.py)         *)
(*   RedisRateLimitBackend     (app/services/rate_limit_redis.py)          *)
(* A process is constructed with one of them; Init chooses which.          *)
(*                                                                         *)
(* Time is the wall clock in whole milliseconds.  The in-memory backend    *)
(* reads it and runs its whole body without an await, so a call acts on    *)
(* the store at the time it read.  The Redis backend reads the clock, then *)
(* awaits EVAL: the Lua script runs atomically on the server some time     *)
(* after the read, so the scripts of concurrent callers may run in an      *)
(* order different from their timestamps.                                  *)
(***************************************************************************)
EXTENDS Integers, Sequences, FiniteSets, TLC

VARIABLES
    backend,    \* "memory" | "redis": the backend this process was built with
    rate_limit_requests,        \* settings.rate_limit_requests, fixed for the process
    rate_limit_window_seconds,  \* settings.rate_limit_window_seconds, fixed likewise
    clock,      \* wall clock, milliseconds
    requests,   \* InMemoryRateLimitBackend._requests: key -> list of timestamps
    zset,       \* Redis: key -> sorted set, a set of members <<now, suffix>>
    expire_at,  \* Redis: key -> time at which the key's EXPIRE fires
    last,       \* the most recently returned call and its return value
    admitted,   \* history: key -> timestamps of the calls that were admitted
    ncalls,     \* history: key -> number of returned check_and_consume calls
    ticks,      \* history: number of clock advances
    client,     \* owner -> its _client attribute: "None" or "Redis"
    outcome,    \* the most recent call of the service layer and how it ended
    shadow,     \* differential run: what the Redis backend returned for the same call
    api_keys,   \* table api_keys: key id -> row
    tenants,    \* table tenants: tenant id -> is_active
    db,         \* committed tables tools, agents and agent_tool_links
    sessions    \* request sessions whose transaction is still open

\* what the rate-limit backends alone never touch
service_vars == <<client, outcome, shadow, api_keys, tenants, db, sessions>>

vars == <<backend, rate_limit_requests, rate_limit_window_seconds, clock, requests, zset, expire_at, last,
          admitted, ncalls, ticks, client, outcome, shadow, api_keys, tenants, db, sessions>>

-----------------------------------------------------------------------------
(* Bounds of the model *)

MaxCalls == 4
MaxTicks == 2
\* calls of the service layer in one run
MaxRequests == 3

(* Program constants *)

MsPerSecond == 1000
ExpireFactor == 2

Keys == {"A", "B"}
Backends == {"memory", "redis"}
\* the configurations a process may be started with
Limits == {1, 2}
Windows == {1, 2}

HalfSecond == MsPerSecond \div 2
\* how far the clock moves between two events
Steps == {HalfSecond, 3 * HalfSecond}
\* how long before its script runs a Redis caller may have read the clock
Delays == {0, HalfSecond}

WindowMs == rate_limit_window_seconds * MsPerSecond

-----------------------------------------------------------------------------
(* Arithmetic helpers *)

Max(a, b) == IF a >= b THEN a ELSE b

\* Python int(x / d) for d > 0: truncation toward zero
TruncDiv(x, d) == IF x >= 0 THEN x \div d ELSE -((-x) \div d)

\* Lua math.ceil(x / d) for d > 0
CeilDiv(x, d) == -((-x) \div d)

SeqMin(s) == CHOOSE m \in {s[i] : i \in DOMAIN s} : \A i \in DOMAIN s : m <= s[i]

Scores(z) == {m[1] : m \in z}

SetMin(S) == CHOOSE m \in S : \A x \in S : m <= x

-----------------------------------------------------------------------------
(* InMemoryRateLimitBackend *)

\* mutation of CleanupExpired: the filtered list is not stored back
CleanupExpiredDropsNothing(reqs, window_ms, now) == reqs

\* _cleanup_expired: keep the timestamps strictly newer than now - window_ms
CleanupExpired(reqs, window_ms, now) ==
    LET window_start == now - window_ms
    IN  SelectSeq(reqs, LAMBDA ts : ts > window_start)

\* mutation of MemAdmits: the off-by-one test
MemAdmitsAtLimit(count, limit) == count <= limit

\* the test of check_and_consume: is the call admitted
MemAdmits(count, limit) == count < limit

\* mutation of MemRetryAfter: no floor of one second
MemRetryAfterNoFloor(reqs, window_ms, window_seconds, now) ==
    IF reqs # <<>>
    THEN TruncDiv(SeqMin(reqs) + window_ms - now, MsPerSecond)
    ELSE window_seconds

\* the else branch of check_and_consume: retry_after from the oldest entry
MemRetryAfter(reqs, window_ms, window_seconds, now) ==
    IF reqs # <<>>
    THEN LET oldest == SeqMin(reqs)
         IN  Max(1, TruncDiv(oldest + window_ms - now, MsPerSecond))
    ELSE window_seconds

\* check_and_consume: the new list of the key and the RateLimitResult
MemCheckAndConsume(reqs, limit, window_seconds, now) ==
    LET window_ms == window_seconds * MsPerSecond
        cleaned   == CleanupExpired(reqs, window_ms, now)
        count     == Len(cleaned)
    IN  IF MemAdmits(count, limit)
        THEN [store |-> Append(cleaned, now), allowed |-> TRUE,
              remaining |-> limit - count - 1, retry_after |-> 0]
        ELSE [store |-> cleaned, allowed |-> FALSE, remaining |-> 0,
              retry_after |-> MemRetryAfter(cleaned, window_ms, window_seconds, now)]

\* mutation of MemGetRemaining: the count is taken before the cleanup
MemGetRemainingCountsExpired(reqs, limit, window_seconds, now) ==
    LET window_ms == window_seconds * MsPerSecond
        cleaned   == CleanupExpired(reqs, window_ms, now)
        count     == Len(reqs)
    IN  [store |-> cleaned, value |-> Max(0, limit - count)]

\* get_remaining: the new list of the key and the returned number
MemGetRemaining(reqs, limit, window_seconds, now) ==
    LET window_ms == window_seconds * MsPerSecond
        cleaned   == CleanupExpired(reqs, window_ms, now)
        count     == Len(cleaned)
    IN  [store |-> cleaned, value |-> Max(0, limit - count)]

-----------------------------------------------------------------------------
(* RedisRateLimitBackend: the two Lua scripts and the Python around them *)

\* mutation of ZRemRangeByScore: the member scored window_start is kept
ZRemRangeByScoreExclusive(z, window_start) == {m \in z : m[1] >= window_start}

\* ZREMRANGEBYSCORE key -inf window_start: drop the members scored <= window_start
ZRemRangeByScore(z, window_start) == {m \in z : m[1] > window_start}

\* ZADD key now (now .. ':' .. math.random(1000000)): an existing member is
\* overwritten, not added a second time
ZAdd(z, now, rnd) == z \cup {<<now, rnd>>}

\* mutation of ScriptAdmits: the off-by-one test
ScriptAdmitsAtLimit(count, limit) == count <= limit

\* the test of RATE_LIMIT_SCRIPT: is the call admitted
ScriptAdmits(count, limit) == count < limit

\* an argument of EVAL as the script sees it: the client sends an int as its
\* decimal text, and every ARGV[i] is a Lua string
RedisArg(n) == ToString(n)

\* what a script returns, as the server replies: a Lua number is an integer
\* reply, a Lua string a bulk reply
IntegerReply(n) == [type |-> "integer", value |-> n]
BulkReply(text) == [type |-> "bulk", value |-> text]

\* Python int(x) of a reply element, the client decoding with
\* decode_responses=True: an integer reply is an int already, a bulk reply is
\* a str and is parsed as decimal text
PyInt(reply) ==
    IF reply.type = "bulk"
    THEN CHOOSE n \in 0..MsPerSecond : ToString(n) = reply.value
    ELSE reply.value

\* the else branch of RATE_LIMIT_SCRIPT: ZRANGE key 0 0 WITHSCORES, then ceil;
\* without a member the script returns ARGV[1] itself, a string
ScriptRetryAfter(z, window, argv1, now) ==
    IF z # {}
    THEN LET oldest == SetMin(Scores(z))
         IN  IntegerReply(CeilDiv(oldest + window - now, MsPerSecond))
    ELSE BulkReply(RedisArg(argv1))

\* RATE_LIMIT_SCRIPT, ARGV = {window_seconds, limit, now}; rnd is math.random's draw.
\* expire is TRUE when the script called EXPIRE key (2 * window_seconds).
RateLimitScript(z, argv1, limit, now, rnd) ==
    LET window       == argv1 * MsPerSecond
        window_start == now - window
        pruned       == ZRemRangeByScore(z, window_start)
        count        == Cardinality(pruned)
    IN  IF ScriptAdmits(count, limit)
        THEN [store |-> ZAdd(pruned, now, rnd), expire |-> TRUE,
              reply |-> <<1, limit - count - 1, IntegerReply(0)>>]
        ELSE [store |-> pruned, expire |-> FALSE,
              reply |-> <<0, 0, ScriptRetryAfter(pruned, window, argv1, now)>>]

\* RATE_LIMIT_CHECK_SCRIPT
RateLimitCheckScript(z, argv1, limit, now) ==
    LET window       == argv1 * MsPerSecond
        window_start == now - window
        pruned       == ZRemRangeByScore(z, window_start)
        count        == Cardinality(pruned)
    IN  [store |-> pruned, reply |-> limit - count]

\* RedisRateLimitBackend.check_and_consume, from the script's reply on
RedisCheckAndConsume(z, limit, window_seconds, now, rnd) ==
    LET r == RateLimitScript(z, window_seconds, limit, now, rnd)
    IN  [store |-> r.store, expire |-> r.expire, allowed |-> (r.reply[1] # 0),
         remaining |-> r.reply[2], retry_after |-> PyInt(r.reply[3])]

\* RedisRateLimitBackend.get_remaining, from the script's reply on
RedisGetRemaining(z, limit, window_seconds, now) ==
    LET r == RateLimitCheckScript(z, window_seconds, limit, now)
    IN  [store |-> r.store, value |-> Max(0, r.reply)]

\* The values math.random(1000000) can return for a call stamped now, up to
\* renaming: a suffix already stored under this timestamp (the new member then
\* equals a stored one), or a suffix not stored under it, which stands for every
\* other value of 1..1000000.
Draws(z, now) ==
    LET used == {m[2] : m \in {x \in z : x[1] = now}}
        fresh == CHOOSE n \in 1..(Cardinality(used) + 1) : n \notin used
    IN  used \cup {fresh}

\* the server deletes a key, members and all, once its expiry time has come
Expired(k, t) == expire_at[k] >= 0 /\ t >= expire_at[k]

-----------------------------------------------------------------------------
(* The state machine *)

\* the two classes that hold a lazily made Redis connection in _client
Owners == {"RedisRateLimitBackend", "RateLimiter"}

\* no call of the service layer has ended yet
NoOutcome == [seq |-> 0, op |-> "none", owner |-> "none", key |-> "none", now |-> 0,
              fault |-> "none", raised |-> "none", reason |-> "none",
              result |-> <<>>, value |-> -1, pinged |-> FALSE,
              closes |-> 0, after_closes |-> 0,
              status |-> 0, error_code |-> "none", headers |-> {}, details |-> <<>>,
              looked_up |-> FALSE, generated |-> FALSE, logged |-> FALSE,
              name |-> "None", tool_ids |-> <<>>, step |-> "none"]

\* the tables tools, agents and agent_tool_links without a row, no id issued yet
NoRows == [tools |-> <<>>, agents |-> <<>>, agent_tool_links |-> {}, uuids |-> 0]

NoCall == [seq |-> 0, op |-> "none", key |-> "A", now |-> 0,
           allowed |-> FALSE, remaining |-> 0, retry_after |-> 0]

\* the service layer before its first call: nothing connected, no tables read
ServiceInit ==
    /\ client = [o \in Owners |-> "None"]
    /\ outcome = NoOutcome
    /\ shadow = <<>>
    /\ api_keys = [i \in {} |-> 0]
    /\ tenants = [t \in {} |-> TRUE]
    /\ db = NoRows
    /\ sessions = <<>>

Init ==
    /\ backend \in Backends
    /\ rate_limit_requests \in Limits
    /\ rate_limit_window_seconds \in Windows
    /\ clock = 0
    /\ requests = [k \in Keys |-> <<>>]
    /\ zset = [k \in Keys |-> {}]
    /\ expire_at = [k \in Keys |-> -1]
    /\ last = NoCall
    /\ admitted = [k \in Keys |-> <<>>]
    /\ ncalls = [k \in Keys |-> 0]
    /\ ticks = 0
    /\ ServiceInit

\* time.time() moves on between two events; on the Redis server the keys whose
\* expiry time has come are gone
Tick(s) ==
    /\ ticks < MaxTicks
    /\ clock' = clock + s
    /\ ticks' = ticks + 1
    /\ zset' = [k \in DOMAIN zset |-> IF Expired(k, clock + s) THEN {} ELSE zset[k]]
    /\ expire_at' = [k \in DOMAIN zset |-> IF Expired(k, clock + s) THEN -1 ELSE expire_at[k]]
    /\ UNCHANGED <<backend, rate_limit_requests, rate_limit_window_seconds,
                   requests, last, admitted, ncalls>>
    /\ UNCHANGED service_vars

\* the return of a check_and_consume call, and the history of the key
ReturnConsume(k, now, r) ==
    /\ last' = [seq |-> last.seq + 1, op |-> "check_and_consume", key |-> k,
                now |-> now, allowed |-> r.allowed, remaining |-> r.remaining,
                retry_after |-> r.retry_after]
    /\ admitted' = IF r.allowed
                   THEN [admitted EXCEPT ![k] = Append(@, now)]
                   ELSE admitted
    /\ ncalls' = [ncalls EXCEPT ![k] = @ + 1]

\* the return of a get_remaining call
ReturnRemaining(k, now, r) ==
    /\ last' = [seq |-> last.seq + 1, op |-> "get_remaining", key |-> k,
                now |-> now, allowed |-> FALSE, remaining |-> r.value,
                retry_after |-> 0]
    /\ UNCHANGED <<admitted, ncalls>>

\* mutation of SetRequests: one list shared by all keys
SetRequestsOfAllKeys(k, store) == requests' = [kk \in Keys |-> store]

\* the key's list after a call of the in-memory backend
SetRequests(k, store) == requests' = [requests EXCEPT ![k] = store]

\* InMemoryRateLimitBackend.check_and_consume(k, limit, window_seconds):
\* no await in its body, so the clock read and the update are one step
MemConsume(k) ==
    /\ backend = "memory"
    /\ last.seq < MaxCalls
    /\ LET r == MemCheckAndConsume(requests[k], rate_limit_requests,
                                   rate_limit_window_seconds, clock)
       IN  /\ SetRequests(k, r.store)
           /\ ReturnConsume(k, clock, r)
    /\ UNCHANGED <<backend, rate_limit_requests, rate_limit_window_seconds,
                   clock, zset, expire_at, ticks>>
    /\ UNCHANGED service_vars

\* InMemoryRateLimitBackend.get_remaining(k, limit, window_seconds)
MemRemaining(k) ==
    /\ backend = "memory"
    /\ last.seq < MaxCalls
    /\ LET r == MemGetRemaining(requests[k], rate_limit_requests,
                                rate_limit_window_seconds, clock)
       IN  /\ SetRequests(k, r.store)
           /\ ReturnRemaining(k, clock, r)
    /\ UNCHANGED <<backend, rate_limit_requests, rate_limit_window_seconds,
                   clock, zset, expire_at, ticks>>
    /\ UNCHANGED service_vars

\* mutation of KeyAfterScript: the key expires half a window after the admission
KeyAfterScriptShortExpiry(k, store, expire) ==
    /\ zset' = [zset EXCEPT ![k] = store]
    /\ expire_at' = [expire_at EXCEPT ![k] =
            IF store = {} THEN -1
            ELSE IF expire
                 THEN clock + rate_limit_window_seconds * HalfSecond
                 ELSE @]

\* the key after a script ran: an emptied sorted set is deleted with its expiry,
\* EXPIRE sets the expiry to ExpireFactor * window_seconds from the server's now
KeyAfterScript(k, store, expire) ==
    /\ zset' = [zset EXCEPT ![k] = store]
    /\ expire_at' = [expire_at EXCEPT ![k] =
            IF store = {} THEN -1
            ELSE IF expire
                 THEN clock + ExpireFactor * rate_limit_window_seconds * MsPerSecond
                 ELSE @]

\* RedisRateLimitBackend.check_and_consume(k, limit, window_seconds): the caller
\* read now = int(time.time() * 1000) d milliseconds ago and awaited EVAL; the
\* server runs RATE_LIMIT_SCRIPT with that now, math.random draws rnd, and the
\* call returns
RedisConsume(k, d, rnd) ==
    /\ backend = "redis"
    /\ last.seq < MaxCalls
    /\ clock - d >= 0
    /\ LET r == RedisCheckAndConsume(zset[k], rate_limit_requests,
                                     rate_limit_window_seconds, clock - d, rnd)
       IN  /\ KeyAfterScript(k, r.store, r.expire)
           /\ ReturnConsume(k, clock - d, r)
    /\ UNCHANGED <<backend, rate_limit_requests, rate_limit_window_seconds,
                   clock, requests, ticks>>
    /\ UNCHANGED service_vars

\* RedisRateLimitBackend.get_remaining(k, limit, window_seconds), likewise with
\* RATE_LIMIT_CHECK_SCRIPT
RedisRemaining(k, d) ==
    /\ backend = "redis"
    /\ last.seq < MaxCalls
    /\ clock - d >= 0
    /\ LET r == RedisGetRemaining(zset[k], rate_limit_requests,
                                  rate_limit_window_seconds, clock - d)
       IN  /\ KeyAfterScript(k, r.store, FALSE)
           /\ ReturnRemaining(k, clock - d, r)
    /\ UNCHANGED <<backend, rate_limit_requests, rate_limit_window_seconds,
                   clock, requests, ticks>>
    /\ UNCHANGED service_vars

Next ==
    \/ \E s \in Steps : Tick(s)
    \/ \E k \in Keys : MemConsume(k)
    \/ \E k \in Keys : MemRemaining(k)
    \/ \E k \in Keys, d \in Delays : \E rnd \in Draws(zset[k], clock - d) :
            RedisConsume(k, d, rnd)
    \/ \E k \in Keys, d \in Delays : RedisRemaining(k, d)

Spec == Init /\ [][Next]_vars

-----------------------------------------------------------------------------
(* Notions the properties are stated with *)

\* the timestamps stored for a key, one per stored record
Stored(k) ==
    IF backend = "memory"
    THEN requests[k]
    ELSE LET RECURSIVE ToSeq(_)
             ToSeq(S) == IF S = {} THEN <<>>
                         ELSE LET m == CHOOSE x \in S : TRUE
                              IN  <<m[1]>> \o ToSeq(S \ {m})
         IN  ToSeq(zset[k])

\* number of stored records of a key that are inside the window ending at now
InWindowCount(k, now) ==
    Cardinality({i \in DOMAIN Stored(k) : Stored(k)[i] > now - WindowMs})

\* number of admitted calls of a key stamped inside the window ending at t
AdmittedInWindow(k, t) ==
    Cardinality({j \in DOMAIN admitted[k] :
                    admitted[k][j] > t - WindowMs /\ admitted[k][j] <= t})

Consumed == last.op = "check_and_consume"
Peeked == last.op = "get_remaining"

-----------------------------------------------------------------------------
(* C1  Window bound: for every key, the check_and_consume calls that were     *)
(* admitted with timestamps inside one interval of length window_seconds      *)
(* number at most limit, in the in-memory and in the Redis backend alike.     *)
(* Stated of every window that ends at the timestamp of an admitted call.     *)
(* The Redis backend violates it: concurrent scripts can run in an order      *)
(* different from their timestamps, and two members with the same timestamp   *)
(* and the same math.random suffix are one member.                            *)

WindowBound ==
    \A k \in Keys : \A i \in DOMAIN admitted[k] :
        AdmittedInWindow(k, admitted[k][i]) <= rate_limit_requests

-----------------------------------------------------------------------------
(* C2  Concurrency exactness (in-memory backend): once 2 * limit              *)
(* check_and_consume calls on a fresh key have returned, all inside one       *)
(* window, exactly limit of them were admitted and limit were denied,         *)
(* whatever the order in which the calls ran.                                 *)

BurstDone(k) ==
    /\ backend = "memory"
    /\ ncalls[k] = 2 * rate_limit_requests
    /\ admitted[k] # <<>>
    /\ admitted[k][1] > clock - WindowMs

-----------------------------------------------------------------------------
(* C3  Stored-count invariant: in every reachable state of either backend the *)
(* records stored for a key with timestamp > now - window_ms number at most   *)
(* limit.                                                                     *)

StoredCountBound ==
    \A k \in Keys : InWindowCount(k, clock) <= rate_limit_requests

StoredCountBoundWitness ==
    /\ backend = "redis"
    /\ rate_limit_requests = 2
    /\ InWindowCount("A", clock) = 2
    /\ Consumed /\ last.key = "A" /\ ~last.allowed

-----------------------------------------------------------------------------
(* C4  Remaining countdown: on a fresh key, with no record expiring in        *)
(* between, the k-th check_and_consume call (1 <= k <= limit) returns         *)
(* allowed, remaining = limit - k and retry_after = 0, and the (limit+1)-th   *)
(* returns denied with remaining = 0.  The Redis backend violates it when two *)
(* admitted calls of one millisecond draw the same suffix.                    *)

\* every admitted record of the key is inside the window of every call so far
NothingExpired(k) == \A j \in DOMAIN admitted[k] : admitted[k][j] > clock - WindowMs

RemainingCountdown ==
    (Consumed /\ NothingExpired(last.key)) =>
        LET n == ncalls[last.key]
        IN  /\ n <= rate_limit_requests =>
                  /\ last.allowed
                  /\ last.remaining = rate_limit_requests - n
                  /\ last.retry_after = 0
            /\ n = rate_limit_requests + 1 =>
                  /\ ~last.allowed
                  /\ last.remaining = 0

-----------------------------------------------------------------------------
(* C5  Non-negativity: every returned remaining is >= 0, and get_remaining    *)
(* returns exactly max(0, limit - count), count being the number of records   *)
(* of the key inside the window of the call, in both backends.                *)

Returned == last'.seq # last.seq

RemainingContract ==
    [][Returned =>
          /\ last'.remaining >= 0
          /\ last'.op = "get_remaining" =>
                last'.remaining =
                    Max(0, rate_limit_requests - InWindowCount(last'.key, last'.now))]_vars

RemainingContractWitness ==
    /\ Peeked
    /\ last.remaining = 1
    /\ rate_limit_requests = 2
    /\ Len(admitted[last.key]) = 2

-----------------------------------------------------------------------------
(* C6  Retry-after positivity: every denied check_and_consume call returns    *)
(* retry_after >= 1, in both backends.                                        *)

Denied == Consumed /\ ~last.allowed

RetryAfterPositive == Denied => last.retry_after >= 1

\* a denial of the in-memory backend less than a second before the oldest
\* record leaves the window
RetryAfterPositiveWitness ==
    /\ Denied
    /\ backend = "memory"
    /\ requests[last.key] # <<>>
    /\ SeqMin(requests[last.key]) + WindowMs - last.now < MsPerSecond

-----------------------------------------------------------------------------
(* C7  Retry-after value: on a denial with a surviving record, retry_after    *)
(* equals ceil((oldest + window_ms - now) / 1000), oldest being the earliest  *)
(* surviving timestamp of the key, in both backends.  The in-memory backend   *)
(* violates it: it truncates where the script rounds up.                      *)

Oldest(k) == SeqMin(Stored(k))

RetryAfterIsCeil ==
    (Denied /\ Stored(last.key) # <<>>) =>
        last.retry_after = CeilDiv(Oldest(last.key) + WindowMs - last.now, MsPerSecond)

-----------------------------------------------------------------------------
(* C8  Expiry recovery: a check_and_consume call made strictly more than      *)
(* window_seconds after the last of at least limit earlier admissions of the  *)
(* key returns allowed with remaining = limit - 1.                            *)

\* the admissions of the key before the call that returned last
EarlierAdmitted(k) ==
    IF Consumed /\ last.key = k /\ last.allowed
    THEN SubSeq(admitted[k], 1, Len(admitted[k]) - 1)
    ELSE admitted[k]

Recovering ==
    /\ Consumed
    /\ Len(EarlierAdmitted(last.key)) >= rate_limit_requests
    /\ \A j \in DOMAIN EarlierAdmitted(last.key) :
            EarlierAdmitted(last.key)[j] + WindowMs < last.now

ExpiryRecovery ==
    Recovering => /\ last.allowed
                  /\ last.remaining = rate_limit_requests - 1

ExpiryRecoveryWitness ==
    /\ Recovering
    /\ rate_limit_requests = 2
    /\ ncalls[last.key] > 3

-----------------------------------------------------------------------------
(* C9  Key isolation: a check_and_consume or get_remaining call on one key    *)
(* changes nothing that is stored for another key, and leaves what            *)
(* get_remaining and check_and_consume would return for the other key the     *)
(* same.                                                                      *)

\* what get_remaining(k) returns when it runs on the present store with now = t
PeekValue(k, t) ==
    IF backend = "memory"
    THEN MemGetRemaining(requests[k], rate_limit_requests,
                         rate_limit_window_seconds, t).value
    ELSE RedisGetRemaining(zset[k], rate_limit_requests,
                           rate_limit_window_seconds, t).value

\* what check_and_consume(k) does when it runs on the present store with
\* now = t: the RateLimitResult and what is stored for the key afterwards
ConsumeOn(k, t) ==
    IF backend = "memory"
    THEN MemCheckAndConsume(requests[k], rate_limit_requests,
                            rate_limit_window_seconds, t)
    ELSE RedisCheckAndConsume(zset[k], rate_limit_requests,
                              rate_limit_window_seconds, t, 1)

KeyIsolation ==
    [][Returned =>
          \A k \in Keys \ {last'.key} :
              /\ requests'[k] = requests[k]
              /\ zset'[k] = zset[k]
              /\ expire_at'[k] = expire_at[k]
              /\ PeekValue(k, clock)' = PeekValue(k, clock)
              /\ ConsumeOn(k, clock)' = ConsumeOn(k, clock)]_vars

\* key A is exhausted and was denied, and B's first call is admitted in full
KeyIsolationWitness ==
    /\ Consumed /\ last.key = "B"
    /\ last.allowed /\ last.remaining = rate_limit_requests - 1
    /\ ncalls["A"] > rate_limit_requests
    /\ InWindowCount("A", clock) = rate_limit_requests

-----------------------------------------------------------------------------
(* C10  Peek neutrality: a get_remaining call on a key leaves allowed and     *)
(* remaining of the check_and_consume call that runs after it on that key     *)
(* the same as without the get_remaining, whatever timestamp that call        *)
(* carries under the interleavings of the two.  The Redis backend violates    *)
(* it: the peek prunes by its own, later timestamp what a check_and_consume   *)
(* stamped earlier still counts.                                              *)

\* the timestamps a check_and_consume that runs next, now or later, may carry
NextCallTimes ==
    {clock + s : s \in Steps}
        \cup (IF backend = "memory" THEN {clock}
              ELSE {clock - d : d \in {x \in Delays : clock - x >= 0}})

\* allowed and remaining of that call
Verdict(k, t) == LET r == ConsumeOn(k, t) IN <<r.allowed, r.remaining>>

PeekNeutrality ==
    [][\A k \in Keys :
          (Returned /\ last'.op = "get_remaining" /\ last'.key = k) =>
              \A t \in NextCallTimes : Verdict(k, t)' = Verdict(k, t)]_vars

-----------------------------------------------------------------------------
(* The Redis connection and its faults.  RedisRateLimitBackend            *)
(* (rate_limit_redis.py) and the RateLimiter facade (rate_limiter.py) hold *)
(* the same code around the same script: _get_client, check_and_consume,  *)
(* close.                                                                  *)

\* what the redis library can do to one call: nothing; from_url raises; the
\* first ping raises; EVAL raises before the script ran; EVAL raises after the
\* script ran (the reply is lost)
Faults == {"none", "from_url", "ping", "eval_unsent", "eval_reply_lost"}

\* from_url and ping run only while _client is None
PossibleFaults(c) == IF c = "None" THEN Faults ELSE Faults \ {"from_url", "ping"}

\* the exception the library raises
LibraryError(fault) ==
    CASE fault = "from_url"        -> "ValueError"
      [] fault = "ping"            -> "ConnectionError"
      [] fault = "eval_unsent"     -> "ConnectionError"
      [] fault = "eval_reply_lost" -> "TimeoutError"
      [] OTHER                     -> "none"

\* _get_client: _client is assigned before the ping, so a failed ping leaves it set
GetClient(c, fault) ==
    IF c = "None"
    THEN IF fault \in {"from_url", "ping"}
         THEN [client |-> IF fault = "ping" THEN "Redis" ELSE "None",
               pinged |-> (fault = "ping"),
               raised |-> "ServiceUnavailableError",
               reason |-> "redis_connection_failed"]
         ELSE [client |-> "Redis", pinged |-> TRUE, raised |-> "none", reason |-> "none"]
    ELSE [client |-> c, pinged |-> FALSE, raised |-> "none", reason |-> "none"]

\* mutation of OnException: the library's exception escapes unwrapped
OnExceptionUnwrapped(e, reason) == [raised |-> e, reason |-> reason]

\* the two except clauses of check_and_consume: ServiceUnavailableError is
\* re-raised, every other Exception becomes ServiceUnavailableError(redis_error)
OnException(e, reason) ==
    IF e = "ServiceUnavailableError"
    THEN [raised |-> e, reason |-> reason]
    ELSE [raised |-> "ServiceUnavailableError", reason |-> "redis_error"]

\* check_and_consume of either owner, _get_client and the faults included: the
\* _client and the sorted set afterwards, and the RateLimitResult or the
\* exception the call ends with
CheckAndConsumeCall(c, z, limit, window_seconds, now, rnd, fault) ==
    LET g == GetClient(c, fault)
        r == RedisCheckAndConsume(z, limit, window_seconds, now, rnd)
        x == OnException(IF g.raised # "none" THEN g.raised ELSE LibraryError(fault),
                         g.reason)
    IN  IF g.raised # "none" \/ fault = "eval_unsent"
        THEN [client |-> g.client, pinged |-> g.pinged, store |-> z, expire |-> FALSE,
              raised |-> x.raised, reason |-> x.reason, result |-> <<>>]
        ELSE IF fault = "eval_reply_lost"
        THEN [client |-> g.client, pinged |-> g.pinged, store |-> r.store,
              expire |-> r.expire,
              raised |-> x.raised, reason |-> x.reason, result |-> <<>>]
        ELSE [client |-> g.client, pinged |-> g.pinged, store |-> r.store,
              expire |-> r.expire, raised |-> "none", reason |-> "none",
              result |-> <<r.allowed, r.remaining, r.retry_after>>]

\* mutation of GetRemainingCall: the fault is raised as check_and_consume raises it
GetRemainingCallRaises(c, z, limit, window_seconds, now, fault) ==
    LET g == GetClient(c, fault)
        r == RedisGetRemaining(z, limit, window_seconds, now)
    IN  IF fault = "none"
        THEN [client |-> g.client, pinged |-> g.pinged, store |-> r.store,
              raised |-> "none", value |-> r.value]
        ELSE [client |-> g.client, pinged |-> g.pinged, store |-> z,
              raised |-> "ServiceUnavailableError", value |-> -1]

\* RedisRateLimitBackend.get_remaining, _get_client and the faults included:
\* every Exception, ServiceUnavailableError too, ends in return 0
GetRemainingCall(c, z, limit, window_seconds, now, fault) ==
    LET g == GetClient(c, fault)
        r == RedisGetRemaining(z, limit, window_seconds, now)
    IN  IF g.raised # "none" \/ fault = "eval_unsent"
        THEN [client |-> g.client, pinged |-> g.pinged, store |-> z,
              raised |-> "none", value |-> 0]
        ELSE IF fault = "eval_reply_lost"
        THEN [client |-> g.client, pinged |-> g.pinged, store |-> r.store,
              raised |-> "none", value |-> 0]
        ELSE [client |-> g.client, pinged |-> g.pinged, store |-> r.store,
              raised |-> "none", value |-> r.value]

\* mutation of CloseCall: _client is closed and not reset to None
CloseCallKeepsClient(c) == c

\* close of either owner: if self._client: await self._client.close(); self._client = None
CloseCall(c) == IF c # "None" THEN "None" ELSE c

-----------------------------------------------------------------------------
(* The RateLimiter facade, ExecutionService and the execution route *)

Tenants == {"a", "b"}

\* key = f"ratelimit:{tenant_id}"
RateLimitKey(tenant_id) == "ratelimit:" \o tenant_id

ServiceKeys == {RateLimitKey(t) : t \in Tenants}

\* RateLimiter.__init__(redis_url): self.redis_url = redis_url or settings.redis_url.
\* Built as get_rate_limiter builds it, RateLimiter(), the url is the configured
\* string; built around a backend object, RateLimiter(backend), the url is that object.
Constructions == Backends \cup {"none"}

\* redis.from_url parses a string; handed any other object it raises, on every call
FacadeFaults(c) == IF backend = "none" THEN PossibleFaults(c) ELSE {"from_url"}

\* the methods the classes define
RateLimiterMethods == {"_get_client", "check_and_consume", "close"}
ExecutionServiceMethods == {"execute_agent"}

\* attribute lookup on an instance
GetAttr(methods, name) == IF name \in methods THEN "none" ELSE "AttributeError"

\* ExecutionService.__init__'s parameters and the keywords the route's own
\* get_execution_service passes
ExecutionServiceParams == {"agent_service", "log_repository", "llm_provider", "rate_limiter"}
RouteFactoryKwargs == {"session", "llm_provider", "rate_limiter"}

\* a call with keyword arguments: every keyword must name a parameter and every
\* parameter without a default must be given
Construct(params, kwargs) == IF kwargs = params THEN "none" ELSE "TypeError"

\* exceptions.py: what an APIException carries to the error handler
RateLimitExceededError(retry_after, limit, window_seconds) ==
    [raised |-> "RateLimitExceededError", status |-> 429,
     error_code |-> "RATE_LIMIT_EXCEEDED",
     details |-> <<limit, window_seconds, retry_after>>,
     headers |-> {<<"Retry-After", ToString(retry_after)>>}]

ServiceUnavailableError(reason) ==
    [raised |-> "ServiceUnavailableError", status |-> 503,
     error_code |-> "SERVICE_UNAVAILABLE", reason |-> reason,
     details |-> <<>>, headers |-> {}]

ForbiddenError(error_code) ==
    [raised |-> "ForbiddenError", status |-> 403, error_code |-> error_code,
     details |-> <<>>, headers |-> {}]

\* error_handler.generic_exception_handler: any other exception
InternalServerError(e) ==
    [raised |-> e, status |-> 500, error_code |-> "INTERNAL_SERVER_ERROR",
     details |-> <<>>, headers |-> {}]

\* what a call that has not come to the agent has done
NothingDone == [looked_up |-> FALSE, generated |-> FALSE, logged |-> FALSE]

ValidationError(error_code) ==
    [raised |-> "ValidationError", status |-> 400, error_code |-> error_code,
     details |-> <<>>, headers |-> {}]

\* how an admitted request goes on: it completes; the tenant has no such agent;
\* data.model is not an allowed model (a request object built without its
\* validator); llm_provider.generate raises; log_repository.create raises
Afters == {"ok", "no_agent", "invalid_model", "llm_error", "log_error"}

\* execute_agent from the agent lookup on, rl being what check_and_consume did
AfterAdmission(after, rl) ==
    CASE after = "no_agent" ->
            ForbiddenError("TENANT_ISOLATION_VIOLATION")
                @@ [looked_up |-> TRUE, generated |-> FALSE, logged |-> FALSE] @@ rl
      [] after = "invalid_model" ->
            ValidationError("INVALID_MODEL")
                @@ [looked_up |-> TRUE, generated |-> FALSE, logged |-> FALSE] @@ rl
      [] after = "llm_error" ->
            InternalServerError("LLMProviderError")
                @@ [looked_up |-> TRUE, generated |-> FALSE, logged |-> FALSE] @@ rl
      [] after = "log_error" ->
            InternalServerError("SQLAlchemyError")
                @@ [looked_up |-> TRUE, generated |-> TRUE, logged |-> FALSE] @@ rl
      [] OTHER ->
            [looked_up |-> TRUE, generated |-> TRUE, logged |-> TRUE,
             value |-> rl.result[2]] @@ rl

\* mutation of ExecuteAgentCall: the token of a request that fails after its
\* admission is given back
ExecuteAgentCallRefunds(c, z, limit, window_seconds, now, rnd, fault, after) ==
    LET rl == CheckAndConsumeCall(c, z, limit, window_seconds, now, rnd, fault)
    IN  IF rl.raised # "none"
        THEN ServiceUnavailableError(rl.reason) @@ NothingDone @@ rl
        ELSE IF ~rl.result[1]
        THEN RateLimitExceededError(rl.result[3], limit, window_seconds)
                 @@ NothingDone @@ rl
        ELSE IF after # "ok"
        THEN [store |-> z] @@ AfterAdmission(after, rl)
        ELSE AfterAdmission(after, rl)

\* mutation of ExecuteAgentCall: a store fault is swallowed and the request runs
ExecuteAgentCallFailsOpen(c, z, limit, window_seconds, now, rnd, fault, after) ==
    LET rl == CheckAndConsumeCall(c, z, limit, window_seconds, now, rnd, fault)
    IN  IF rl.raised = "none" /\ ~rl.result[1]
        THEN RateLimitExceededError(rl.result[3], limit, window_seconds)
                 @@ NothingDone @@ rl
        ELSE [looked_up |-> TRUE, generated |-> TRUE, logged |-> TRUE,
              raised |-> "none", value |-> limit] @@ rl

\* RateLimitExceededError.__init__'s defaults for limit and window_seconds
DefaultLimit == 100
DefaultWindowSeconds == 60

\* mutation of ExecuteAgentCall: the error is built with the defaults of its class
ExecuteAgentCallDefaultDetails(c, z, limit, window_seconds, now, rnd, fault, after) ==
    LET rl == CheckAndConsumeCall(c, z, limit, window_seconds, now, rnd, fault)
    IN  IF rl.raised # "none"
        THEN ServiceUnavailableError(rl.reason) @@ NothingDone @@ rl
        ELSE IF ~rl.result[1]
        THEN RateLimitExceededError(rl.result[3], DefaultLimit, DefaultWindowSeconds)
                 @@ NothingDone @@ rl
        ELSE AfterAdmission(after, rl)

\* ExecutionService.execute_agent(tenant_id, agent_id, data) on the facade's
\* check_and_consume; after: how the rest of the request goes once it is admitted
ExecuteAgentCall(c, z, limit, window_seconds, now, rnd, fault, after) ==
    LET rl == CheckAndConsumeCall(c, z, limit, window_seconds, now, rnd, fault)
    IN  IF rl.raised # "none"
        THEN ServiceUnavailableError(rl.reason) @@ NothingDone @@ rl
        ELSE IF ~rl.result[1]
        THEN RateLimitExceededError(rl.result[3], limit, window_seconds)
                 @@ NothingDone @@ rl
        ELSE AfterAdmission(after, rl)

\* routes/execution.py execute_agent: Depends(get_execution_service) builds the
\* service, the handler calls service.execute_agent and then
\* service.get_remaining_rate_limit, and only then sets the three headers
RouteExecuteAgentCall(c, z, limit, window_seconds, now, rnd, fault, after) ==
    LET idle == [client |-> c, pinged |-> FALSE, store |-> z, expire |-> FALSE]
        e    == ExecuteAgentCall(c, z, limit, window_seconds, now, rnd, fault, after)
    IN  IF Construct(ExecutionServiceParams, RouteFactoryKwargs) # "none"
        THEN InternalServerError(Construct(ExecutionServiceParams, RouteFactoryKwargs))
                 @@ NothingDone @@ idle
        ELSE IF e.raised # "none"
        THEN e
        ELSE InternalServerError(GetAttr(ExecutionServiceMethods,
                                         "get_remaining_rate_limit")) @@ e

-----------------------------------------------------------------------------
(* The service layer as state machines.  Each call runs to its end before    *)
(* the next begins, with now = the clock (the order of concurrent scripts is *)
(* the subject of Spec).                                                     *)
(*   SpecBackend: one RedisRateLimitBackend, its connection and its faults   *)
(*   SpecService: the RateLimiter facade, ExecutionService and the route     *)

Restrict(f, D) == [x \in D |-> f[x]]

\* a call of owner o on key k ended as r says: the connection, the key on the
\* server, and the record of the call
Ends(op, o, k, fault, r) ==
    /\ client' = [client EXCEPT ![o] = r.client]
    /\ KeyAfterScript(k, r.store, r.expire)
    /\ outcome' = Restrict([seq |-> outcome.seq + 1, op |-> op, owner |-> o, key |-> k,
                            now |-> clock, fault |-> fault,
                            closes |-> 0, after_closes |-> outcome.closes]
                               @@ r @@ NoOutcome,
                           DOMAIN NoOutcome)
    /\ UNCHANGED <<backend, rate_limit_requests, rate_limit_window_seconds, clock,
                   requests, last, admitted, ncalls, ticks, shadow, api_keys, tenants, db, sessions>>

\* RedisRateLimitBackend.check_and_consume(k, limit, window_seconds)
BackendConsume(k, rnd, fault) ==
    /\ outcome.seq < MaxRequests
    /\ fault \in PossibleFaults(client["RedisRateLimitBackend"])
    /\ Ends("check_and_consume", "RedisRateLimitBackend", k, fault,
            CheckAndConsumeCall(client["RedisRateLimitBackend"], zset[k],
                                rate_limit_requests, rate_limit_window_seconds,
                                clock, rnd, fault))

\* RedisRateLimitBackend.get_remaining(k, limit, window_seconds)
BackendRemaining(k, fault) ==
    /\ outcome.seq < MaxRequests
    /\ fault \in PossibleFaults(client["RedisRateLimitBackend"])
    /\ Ends("get_remaining", "RedisRateLimitBackend", k, fault,
            [expire |-> FALSE]
                @@ GetRemainingCall(client["RedisRateLimitBackend"], zset[k],
                                    rate_limit_requests, rate_limit_window_seconds,
                                    clock, fault))

\* RedisRateLimitBackend.close() and RateLimiter.close()
Close(o) ==
    /\ outcome.seq < MaxRequests
    /\ client' = [client EXCEPT ![o] = CloseCall(@)]
    /\ outcome' = [NoOutcome EXCEPT !.seq = outcome.seq + 1, !.op = "close",
                                    !.owner = o, !.now = clock,
                                    !.closes = outcome.closes + 1]
    /\ UNCHANGED <<backend, rate_limit_requests, rate_limit_window_seconds, clock,
                   requests, zset, expire_at, last, admitted, ncalls, ticks,
                   shadow, api_keys, tenants, db, sessions>>

InitBackend == Init /\ backend = "redis"

NextBackend ==
    \/ \E s \in Steps : Tick(s)
    \/ \E k \in Keys, fault \in Faults :
          \E rnd \in Draws(zset[k], clock) : BackendConsume(k, rnd, fault)
    \/ \E k \in Keys, fault \in Faults : BackendRemaining(k, fault)
    \/ Close("RedisRateLimitBackend")

SpecBackend == InitBackend /\ [][NextBackend]_vars

\* RateLimiter.check_and_consume(t)
FacadeConsume(t, rnd, fault) ==
    /\ outcome.seq < MaxRequests
    /\ fault \in FacadeFaults(client["RateLimiter"])
    /\ Ends("check_and_consume", "RateLimiter", RateLimitKey(t), fault,
            CheckAndConsumeCall(client["RateLimiter"], zset[RateLimitKey(t)],
                                rate_limit_requests, rate_limit_window_seconds,
                                clock, rnd, fault))

\* RateLimiter.get_remaining(t): the class defines no such method
FacadeGetRemaining(t) ==
    /\ outcome.seq < MaxRequests
    /\ outcome' = [NoOutcome EXCEPT !.seq = outcome.seq + 1, !.op = "get_remaining",
                                    !.owner = "RateLimiter", !.key = RateLimitKey(t),
                                    !.now = clock,
                                    !.raised = GetAttr(RateLimiterMethods, "get_remaining")]
    /\ UNCHANGED <<backend, rate_limit_requests, rate_limit_window_seconds, clock,
                   requests, zset, expire_at, last, admitted, ncalls, ticks,
                   client, shadow, api_keys, tenants, db, sessions>>

\* ExecutionService.execute_agent(t, agent_id, data)
ExecuteAgent(t, after, rnd, fault) ==
    /\ outcome.seq < MaxRequests
    /\ fault \in FacadeFaults(client["RateLimiter"])
    /\ Ends("execute_agent", "RateLimiter", RateLimitKey(t), fault,
            ExecuteAgentCall(client["RateLimiter"], zset[RateLimitKey(t)],
                             rate_limit_requests, rate_limit_window_seconds,
                             clock, rnd, fault, after))

\* POST /agents/{agent_id}/run by tenant t, for an agent the tenant has, with
\* the store at hand
RouteExecuteAgent(t) ==
    /\ outcome.seq < MaxRequests
    /\ Ends("POST /agents/{agent_id}/run", "RateLimiter", RateLimitKey(t), "none",
            RouteExecuteAgentCall(client["RateLimiter"], zset[RateLimitKey(t)],
                                  rate_limit_requests, rate_limit_window_seconds,
                                  clock, 1, "none", "ok"))

InitService ==
    /\ backend \in Constructions
    /\ rate_limit_requests \in Limits
    /\ rate_limit_window_seconds \in Windows
    /\ clock = 0
    /\ requests = [k \in ServiceKeys |-> <<>>]
    /\ zset = [k \in ServiceKeys |-> {}]
    /\ expire_at = [k \in ServiceKeys |-> -1]
    /\ last = NoCall
    /\ admitted = [k \in ServiceKeys |-> <<>>]
    /\ ncalls = [k \in ServiceKeys |-> 0]
    /\ ticks = 0
    /\ ServiceInit

NextService ==
    \/ \E s \in Steps : Tick(s)
    \/ \E t \in Tenants, fault \in Faults :
          \E rnd \in Draws(zset[RateLimitKey(t)], clock) : FacadeConsume(t, rnd, fault)
    \/ \E t \in Tenants : FacadeGetRemaining(t)
    \/ Close("RateLimiter")
    \/ \E t \in Tenants, after \in Afters, fault \in Faults :
          \E rnd \in Draws(zset[RateLimitKey(t)], clock) : ExecuteAgent(t, after, rnd, fault)
    \/ \E t \in Tenants : RouteExecuteAgent(t)

SpecService == InitService /\ [][NextService]_vars

-----------------------------------------------------------------------------
(* Notions the properties of the service layer are stated with *)

\* a call of the service layer has just ended
Ended == outcome'.seq # outcome.seq

RateLimitCalled == outcome.op = "check_and_consume"

\* the RateLimitResult a call returned or acted on, as <<allowed, remaining, retry_after>>
Triple(r) == <<r.allowed, r.remaining, r.retry_after>>

NothingDoneFor(o) == ~o.looked_up /\ ~o.generated /\ ~o.logged

-----------------------------------------------------------------------------
(* C11  Store fault is never a verdict: when from_url, the first ping or the *)
(* script evaluation raises in the Redis-backed check_and_consume, the call  *)
(* raises ServiceUnavailableError and returns no RateLimitResult, neither    *)
(* an admission nor a denial.                                                *)

StoreFaultIsNeverVerdict ==
    (RateLimitCalled /\ outcome.fault # "none") =>
        /\ outcome.raised = "ServiceUnavailableError"
        /\ outcome.result = <<>>

\* the script ran and stored a record, and its reply was lost
StoreFaultIsNeverVerdictWitness ==
    /\ RateLimitCalled
    /\ outcome.fault = "eval_reply_lost"
    /\ outcome.raised = "ServiceUnavailableError"
    /\ outcome.reason = "redis_error"
    /\ zset[outcome.key] # {}

-----------------------------------------------------------------------------
(* C12  Denial translation: when check_and_consume returns allowed = false,  *)
(* execute_agent raises RateLimitExceededError: status 429, error code       *)
(* RATE_LIMIT_EXCEEDED, retry_after_seconds and the Retry-After header equal *)
(* to the result's retry_after, limit and window_seconds the configured      *)
(* values; no agent lookup, no LLM call and no execution log happen.         *)

ExecutionDenied ==
    /\ outcome.op = "execute_agent"
    /\ outcome.result # <<>>
    /\ ~outcome.result[1]

DenialTranslation ==
    ExecutionDenied =>
        /\ outcome.raised = "RateLimitExceededError"
        /\ outcome.status = 429
        /\ outcome.error_code = "RATE_LIMIT_EXCEEDED"
        /\ outcome.details = <<rate_limit_requests, rate_limit_window_seconds,
                               outcome.result[3]>>
        /\ outcome.headers = {<<"Retry-After", ToString(outcome.result[3])>>}
        /\ NothingDoneFor(outcome)

\* a denial half a second before the oldest record leaves a two-second window
DenialTranslationWitness ==
    /\ ExecutionDenied
    /\ rate_limit_window_seconds = 2
    /\ outcome.result[3] = 1

-----------------------------------------------------------------------------
(* C13  Backend fault propagation: when the rate-limit store is unavailable, *)
(* execute_agent ends with ServiceUnavailableError: status 503, error code   *)
(* SERVICE_UNAVAILABLE, no Retry-After header; it is no admission (no agent  *)
(* lookup, no LLM call, no execution log) and no RateLimitExceededError.     *)

FaultPropagation ==
    (outcome.op = "execute_agent" /\ outcome.fault # "none") =>
        /\ outcome.raised = "ServiceUnavailableError"
        /\ outcome.status = 503
        /\ outcome.error_code = "SERVICE_UNAVAILABLE"
        /\ outcome.headers = {}
        /\ outcome.result = <<>>
        /\ NothingDoneFor(outcome)

\* the connection was there and the evaluation failed
FaultPropagationWitness ==
    /\ outcome.op = "execute_agent"
    /\ outcome.fault = "eval_unsent"
    /\ ~outcome.pinged
    /\ outcome.status = 503
    /\ backend = "none"

-----------------------------------------------------------------------------
(* C14  Facade delegation and key derivation: RateLimiter.check_and_consume  *)
(* (tenant_id) calls its backend's check_and_consume once with key           *)
(* "ratelimit:" + tenant_id and the configured limit and window and returns  *)
(* the backend's result unchanged; different tenants have different keys.    *)
(* Stated of a facade built around a backend.  The class of rate_limiter.py  *)
(* violates it: it keeps no backend, takes its argument for a Redis url and  *)
(* ends every call with ServiceUnavailableError.                             *)

FacadeDelegation ==
    [][(Ended /\ outcome'.op = "check_and_consume" /\ outcome'.owner = "RateLimiter"
              /\ backend \in Backends) =>
          /\ outcome'.key \in ServiceKeys
          /\ \A t1, t2 \in Tenants : RateLimitKey(t1) = RateLimitKey(t2) => t1 = t2
          /\ outcome'.raised = "none"
          /\ outcome'.result = Triple(ConsumeOn(outcome'.key, clock))]_vars

-----------------------------------------------------------------------------
(* C15  Facade peek: RateLimiter.get_remaining(tenant_id) returns what the   *)
(* backend's get_remaining returns for the tenant's key with the configured  *)
(* limit and window, and consumes nothing.  The class of rate_limiter.py     *)
(* violates it: it has no get_remaining, the call ends in AttributeError.    *)

FacadePeek ==
    [][(Ended /\ outcome'.op = "get_remaining" /\ outcome'.owner = "RateLimiter") =>
          /\ outcome'.raised = "none"
          /\ outcome'.value = PeekValue(outcome'.key, clock)
          /\ \A k \in DOMAIN zset : zset'[k] \subseteq zset[k]]_vars

-----------------------------------------------------------------------------
(* C16  close() idempotence: close() of the Redis-backed limiter never       *)
(* raises, however often it is called in a row and also before any           *)
(* connection was made, and leaves the limiter unconnected as it was         *)
(* built; the check_and_consume after it opens a new connection.             *)

-----------------------------------------------------------------------------
(* C17  Rate-limit response headers: the response of a successful execution  *)
(* carries X-RateLimit-Limit = the configured limit, X-RateLimit-Window =    *)
(* the configured window and X-RateLimit-Remaining = the remaining count     *)
(* that the request's own check_and_consume returned.  Stated of a request   *)
(* that the limiter admits, for an agent the tenant has, with the store up.  *)
(* The route violates it: it builds ExecutionService with a keyword the      *)
(* class does not take, and every request ends in a 500 without headers.     *)

RateLimitHeaders(limit, remaining, window_seconds) ==
    {<<"X-RateLimit-Limit", ToString(limit)>>,
     <<"X-RateLimit-Remaining", ToString(remaining)>>,
     <<"X-RateLimit-Window", ToString(window_seconds)>>}

ResponseHeaders ==
    [][(Ended /\ outcome'.op = "POST /agents/{agent_id}/run" /\ backend = "none"
              /\ ConsumeOn(outcome'.key, clock).allowed) =>
          /\ outcome'.status = 200
          /\ outcome'.headers =
                 RateLimitHeaders(rate_limit_requests,
                                  ConsumeOn(outcome'.key, clock).remaining,
                                  rate_limit_window_seconds)]_vars

-----------------------------------------------------------------------------
(* C18  Peek fails soft: get_remaining of the Redis backend never raises;    *)
(* when the connection cannot be made or the script fails it returns 0, and  *)
(* it inserts no record.                                                     *)

PeekFailsSoft ==
    [][(Ended /\ outcome'.op = "get_remaining"
              /\ outcome'.owner = "RedisRateLimitBackend") =>
          /\ outcome'.raised = "none"
          /\ outcome'.value >= 0
          /\ outcome'.fault # "none" => outcome'.value = 0
          /\ \A k \in DOMAIN zset : zset'[k] \subseteq zset[k]]_vars

\* the first ping failed on a key that has its whole limit left
PeekFailsSoftWitness ==
    /\ outcome.op = "get_remaining"
    /\ outcome.owner = "RedisRateLimitBackend"
    /\ outcome.fault = "ping"
    /\ outcome.value = 0
    /\ zset[outcome.key] = {}

-----------------------------------------------------------------------------
(* The two backends side by side: every call is made on the in-memory        *)
(* backend and on the Redis backend with the same key, limit, window and     *)
(* timestamp; last holds what the in-memory backend returned and shadow      *)
(* what the Redis backend returned.                                          *)

InitBoth == Init /\ backend = "memory"

\* check_and_consume(k, limit, window_seconds) on both, now = clock on both
BothConsume(k, rnd) ==
    /\ last.seq < MaxCalls
    /\ LET m == MemCheckAndConsume(requests[k], rate_limit_requests,
                                   rate_limit_window_seconds, clock)
           r == RedisCheckAndConsume(zset[k], rate_limit_requests,
                                     rate_limit_window_seconds, clock, rnd)
       IN  /\ SetRequests(k, m.store)
           /\ ReturnConsume(k, clock, m)
           /\ KeyAfterScript(k, r.store, r.expire)
           /\ shadow' = <<r.allowed, r.remaining, r.retry_after>>
    /\ UNCHANGED <<backend, rate_limit_requests, rate_limit_window_seconds,
                   clock, ticks, client, outcome, api_keys, tenants, db, sessions>>

\* get_remaining(k, limit, window_seconds) on both
BothRemaining(k) ==
    /\ last.seq < MaxCalls
    /\ LET m == MemGetRemaining(requests[k], rate_limit_requests,
                                rate_limit_window_seconds, clock)
           r == RedisGetRemaining(zset[k], rate_limit_requests,
                                  rate_limit_window_seconds, clock)
       IN  /\ SetRequests(k, m.store)
           /\ ReturnRemaining(k, clock, m)
           /\ KeyAfterScript(k, r.store, FALSE)
           /\ shadow' = <<r.value>>
    /\ UNCHANGED <<backend, rate_limit_requests, rate_limit_window_seconds,
                   clock, ticks, client, outcome, api_keys, tenants, db, sessions>>

NextBoth ==
    \/ \E s \in Steps : Tick(s)
    \/ \E k \in Keys : \E rnd \in Draws(zset[k], clock) : BothConsume(k, rnd)
    \/ \E k \in Keys : BothRemaining(k)

SpecBoth == InitBoth /\ [][NextBoth]_vars

-----------------------------------------------------------------------------
(* C19  Backend equivalence: on the same sequence of check_and_consume and   *)
(* get_remaining calls with the same keys, timestamps, limit and window the  *)
(* in-memory backend and the Redis backend return the same allowed,          *)
(* remaining and retry_after, and the same get_remaining value, at every     *)
(* step.  The code violates it: the in-memory backend truncates retry_after  *)
(* where the script rounds up, and the script stores one member for two      *)
(* admissions of one millisecond that draw the same suffix.                  *)

BackendEquivalence ==
    /\ Consumed => shadow = <<last.allowed, last.remaining, last.retry_after>>
    /\ Peeked => shadow = <<last.remaining>>

-----------------------------------------------------------------------------
(* API-key authentication: the api_keys and tenants tables, AuthService and  *)
(* APIKeyRepository.  A row of api_keys is [key_hash, tenant_id, is_active,  *)
(* last_used_at, writes]: last_used_at is -1 for NULL and a clock value      *)
(* otherwise, writes counts the assignments to last_used_at.  tenants maps a *)
(* tenant id to its is_active column.                                        *)

\* the plain keys a caller presents: the two seeded demo keys and one that
\* was never issued
PlainKeys == {"tenant-a-key", "tenant-b-key", "no-such-key"}

\* APIKey.hash_key: the SHA-256 hex digest, a different string for every
\* plain key of PlainKeys and never the plain key itself
HashKey(plain_key) == "sha256:" \o plain_key

\* the rows the migration seeds: active, never used
SeededKeys ==
    (1 :> [key_hash |-> HashKey("tenant-a-key"), tenant_id |-> "a",
           is_active |-> TRUE, last_used_at |-> -1, writes |-> 0])
    @@ (2 :> [key_hash |-> HashKey("tenant-b-key"), tenant_id |-> "b",
              is_active |-> TRUE, last_used_at |-> -1, writes |-> 0])

\* AuthenticationError(error_code, message): 401
AuthenticationError(error_code) ==
    [raised |-> "AuthenticationError", status |-> 401, error_code |-> error_code,
     headers |-> {}]

\* result.scalar_one_or_none() of select(APIKey).where(APIKey.key_hash == key_hash):
\* the id of the row, 0 for None; key_hash carries a unique index
GetByHash(rows, key_hash) ==
    LET found == {i \in DOMAIN rows : rows[i].key_hash = key_hash}
    IN  IF found = {} THEN 0 ELSE CHOOSE i \in found : TRUE

\* APIKeyRepository.update_last_used(key_id) at time now
UpdateLastUsed(rows, key_id, now) ==
    IF key_id \in DOMAIN rows
    THEN [rows EXCEPT ![key_id].last_used_at = now, ![key_id].writes = @ + 1]
    ELSE rows

\* APIKeyRepository.deactivate(key_id)
DeactivateCall(rows, key_id) ==
    IF key_id \in DOMAIN rows
    THEN [rows EXCEPT ![key_id].is_active = FALSE]
    ELSE rows

\* validate_api_key with the tenant looked at before the key's own flag
ValidateApiKeyCallTenantFirst(rows, tenant_rows, plain_key, now) ==
    LET id == GetByHash(rows, HashKey(plain_key))
    IN  IF id = 0
        THEN [rows |-> rows, result |-> <<>>] @@ AuthenticationError("INVALID_API_KEY")
        ELSE IF /\ rows[id].tenant_id \in DOMAIN tenant_rows
                /\ ~tenant_rows[rows[id].tenant_id]
        THEN [rows |-> rows, result |-> <<>>] @@ AuthenticationError("TENANT_INACTIVE")
        ELSE IF ~rows[id].is_active
        THEN [rows |-> rows, result |-> <<>>] @@ AuthenticationError("API_KEY_INACTIVE")
        ELSE [rows |-> UpdateLastUsed(rows, id, now), result |-> <<rows[id].tenant_id>>,
              raised |-> "none"]

\* AuthService.validate_api_key(plain_key) at time now: the table after the
\* call and either the exception raised or <<tenant_id>> returned
ValidateApiKeyCall(rows, tenant_rows, plain_key, now) ==
    LET id == GetByHash(rows, HashKey(plain_key))
    IN  IF id = 0
        THEN [rows |-> rows, result |-> <<>>] @@ AuthenticationError("INVALID_API_KEY")
        ELSE IF ~rows[id].is_active
        THEN [rows |-> rows, result |-> <<>>] @@ AuthenticationError("API_KEY_INACTIVE")
        ELSE IF /\ rows[id].tenant_id \in DOMAIN tenant_rows
                /\ ~tenant_rows[rows[id].tenant_id]
        THEN [rows |-> rows, result |-> <<>>] @@ AuthenticationError("TENANT_INACTIVE")
        ELSE [rows |-> UpdateLastUsed(rows, id, now), result |-> <<rows[id].tenant_id>>,
              raised |-> "none"]

\* a request presents plain_key
ValidateApiKey(plain_key) ==
    /\ outcome.seq < MaxRequests
    /\ LET r == ValidateApiKeyCall(api_keys, tenants, plain_key, clock)
       IN  /\ api_keys' = r.rows
           /\ outcome' = Restrict([seq |-> outcome.seq + 1, op |-> "validate_api_key",
                                   key |-> plain_key, now |-> clock]
                                  @@ r @@ NoOutcome,
                                  DOMAIN NoOutcome)
    /\ UNCHANGED <<backend, rate_limit_requests, rate_limit_window_seconds, clock,
                   requests, zset, expire_at, last, admitted, ncalls, ticks,
                   client, shadow, tenants, db, sessions>>

\* an administrator deactivates the key key_id
DeactivateKey(key_id) ==
    /\ outcome.seq < MaxRequests
    /\ api_keys' = DeactivateCall(api_keys, key_id)
    /\ outcome' = [NoOutcome EXCEPT !.seq = outcome.seq + 1, !.op = "deactivate",
                                    !.now = clock]
    /\ UNCHANGED <<backend, rate_limit_requests, rate_limit_window_seconds, clock,
                   requests, zset, expire_at, last, admitted, ncalls, ticks,
                   client, shadow, tenants, db, sessions>>

\* the seeded keys; a tenant's is_active column is either value
InitAuth ==
    /\ backend = "memory"
    /\ rate_limit_requests \in Limits
    /\ rate_limit_window_seconds \in Windows
    /\ clock = 0
    /\ requests = [k \in Keys |-> <<>>]
    /\ zset = [k \in Keys |-> {}]
    /\ expire_at = [k \in Keys |-> -1]
    /\ last = NoCall
    /\ admitted = [k \in Keys |-> <<>>]
    /\ ncalls = [k \in Keys |-> 0]
    /\ ticks = 0
    /\ client = [o \in Owners |-> "None"]
    /\ outcome = NoOutcome
    /\ shadow = <<>>
    /\ api_keys = SeededKeys
    /\ tenants \in [Tenants -> BOOLEAN]
    /\ db = NoRows
    /\ sessions = <<>>

NextAuth ==
    \/ \E s \in Steps : Tick(s)
    \/ \E plain_key \in PlainKeys : ValidateApiKey(plain_key)
    \/ \E key_id \in DOMAIN api_keys : DeactivateKey(key_id)

SpecAuth == InitAuth /\ [][NextAuth]_vars

-----------------------------------------------------------------------------
(* C20  API-key validation order: validate_api_key fails with                *)
(* INVALID_API_KEY when no key matches the hash, else with API_KEY_INACTIVE  *)
(* when the key is inactive, else with TENANT_INACTIVE when the key's tenant *)
(* is inactive, and only otherwise returns the key's tenant id; last_used_at *)
(* is written exactly once on success, to the matched row only, and never on *)
(* any of the three failures.                                                *)

\* the ids of the rows whose hash is that of the key presented
Matching(plain_key) == {i \in DOMAIN api_keys : api_keys[i].key_hash = HashKey(plain_key)}

\* the call ended in AuthenticationError(error_code), 401, and wrote nothing
AuthFailsWith(error_code) ==
    /\ outcome'.raised = "AuthenticationError"
    /\ outcome'.status = 401
    /\ outcome'.error_code = error_code
    /\ outcome'.result = <<>>
    /\ api_keys' = api_keys

\* the call returned the tenant of row i and wrote last_used_at of row i once
AuthSucceedsFor(i) ==
    /\ outcome'.raised = "none"
    /\ outcome'.result = <<api_keys[i].tenant_id>>
    /\ api_keys'[i].writes = api_keys[i].writes + 1
    /\ api_keys'[i].last_used_at = clock
    /\ api_keys' = [api_keys EXCEPT ![i].writes = @ + 1, ![i].last_used_at = clock]

ApiKeyValidationOrder ==
    [][(Ended /\ outcome'.op = "validate_api_key") =>
        LET m == Matching(outcome'.key)
        IN  /\ Cardinality(m) <= 1
            /\ m = {} => AuthFailsWith("INVALID_API_KEY")
            /\ \A i \in m :
                 /\ ~api_keys[i].is_active => AuthFailsWith("API_KEY_INACTIVE")
                 /\ (api_keys[i].is_active /\ ~tenants[api_keys[i].tenant_id])
                        => AuthFailsWith("TENANT_INACTIVE")
                 /\ (api_keys[i].is_active /\ tenants[api_keys[i].tenant_id])
                        => AuthSucceedsFor(i)]_vars

\* an inactive key of an inactive tenant was presented and refused as
\* API_KEY_INACTIVE
ApiKeyValidationOrderWitness ==
    /\ outcome.op = "validate_api_key"
    /\ outcome.error_code = "API_KEY_INACTIVE"
    /\ \E i \in DOMAIN api_keys :
         /\ api_keys[i].key_hash = HashKey(outcome.key)
         /\ ~api_keys[i].is_active
         /\ ~tenants[api_keys[i].tenant_id]

-----------------------------------------------------------------------------
(* The edge of the window.  The clock moves by one millisecond or by one     *)
(* millisecond less than the window, so that a call finds records stamped    *)
(* exactly now - window_ms and now - window_ms + 1.                          *)

BoundarySteps == {1, WindowMs - 1}

NextBoundary ==
    \/ \E s \in BoundarySteps : Tick(s)
    \/ \E k \in Keys : MemConsume(k)
    \/ \E k \in Keys : MemRemaining(k)
    \/ \E k \in Keys, d \in Delays : \E rnd \in Draws(zset[k], clock - d) :
            RedisConsume(k, d, rnd)
    \/ \E k \in Keys, d \in Delays : RedisRemaining(k, d)

SpecBoundary == Init /\ [][NextBoundary]_vars

\* number of records in the sequence of timestamps s stamped ts
CountAt(s, ts) == Cardinality({i \in DOMAIN s : s[i] = ts})

\* number of records in s stamped ts or later
CountFrom(s, ts) == Cardinality({i \in DOMAIN s : s[i] >= ts})

\* number of records stored for the key with timestamp ts
StoredAt(k, ts) == CountAt(Stored(k), ts)

-----------------------------------------------------------------------------
(* C22  Window boundary: a record whose timestamp equals now - window_ms     *)
(* exactly is expired: the call removes it and does not count it, in         *)
(* check_and_consume and in get_remaining; a record stamped                  *)
(* now - window_ms + 1 stays stored and is counted.  Both backends agree:    *)
(* the property is one formula over whichever backend the process has.       *)

WindowBoundary ==
    [][\A k \in Keys :
          (Returned /\ last'.key = k) =>
              LET edge  == last'.now - WindowMs
                  count == CountFrom(Stored(k), edge + 1)
              IN  /\ CountAt(Stored(k)', edge) = 0
                  /\ CountAt(Stored(k)', edge + 1) >= CountAt(Stored(k), edge + 1)
                  /\ last'.op = "get_remaining" =>
                        last'.remaining = Max(0, rate_limit_requests - count)
                  /\ last'.op = "check_and_consume" =>
                        /\ last'.allowed = (count < rate_limit_requests)
                        /\ last'.allowed =>
                              last'.remaining = rate_limit_requests - count - 1]_vars

\* the key was admitted at now - window_ms and at now - window_ms + 1; the
\* call that returned dropped the first record, kept the second and counted one
WindowBoundaryWitness ==
    /\ backend = "redis"
    /\ Peeked
    /\ rate_limit_requests = 2
    /\ last.remaining = 1
    /\ \E i, j \in DOMAIN admitted[last.key] :
          /\ admitted[last.key][i] = last.now - WindowMs
          /\ admitted[last.key][j] = last.now - WindowMs + 1
    /\ StoredAt(last.key, last.now - WindowMs) = 0
    /\ StoredAt(last.key, last.now - WindowMs + 1) = 1

-----------------------------------------------------------------------------
(* C23  Record lifecycle: a check_and_consume call that finds count < limit  *)
(* after pruning inserts exactly one record, stamped with its now, and no    *)
(* other call inserts one; a denied check_and_consume and a get_remaining    *)
(* change what is stored for the key only by removing records already        *)
(* outside the window.  The Redis backend violates it: an admitted call      *)
(* whose math.random suffix equals that of a member with the same timestamp  *)
(* overwrites that member and inserts nothing.                               *)

\* every timestamp a record can carry within the bounds
TimeStamps == {n * HalfSecond : n \in 0..(3 * MaxTicks)}

RecordLifecycle ==
    [][\A k \in Keys :
          (Returned /\ last'.key = k) =>
              LET edge   == last'.now - WindowMs
                  count  == CountFrom(Stored(k), edge + 1)
                  admits == last'.op = "check_and_consume" /\ count < rate_limit_requests
              IN  /\ last'.op = "check_and_consume" => (last'.allowed <=> admits)
                  /\ \A ts \in TimeStamps :
                        CountAt(Stored(k)', ts) =
                            (IF ts > edge THEN CountAt(Stored(k), ts) ELSE 0)
                            + (IF admits /\ ts = last'.now THEN 1 ELSE 0)]_vars

-----------------------------------------------------------------------------
(* A process started with a limit that admits nothing.                       *)

\* settings.rate_limit_requests is an unconstrained int
BadLimits == {0, -1}

InitMisconfigured ==
    /\ backend \in Backends
    /\ rate_limit_requests \in BadLimits
    /\ rate_limit_window_seconds \in Windows
    /\ clock = 0
    /\ requests = [k \in Keys |-> <<>>]
    /\ zset = [k \in Keys |-> {}]
    /\ expire_at = [k \in Keys |-> -1]
    /\ last = NoCall
    /\ admitted = [k \in Keys |-> <<>>]
    /\ ncalls = [k \in Keys |-> 0]
    /\ ticks = 0
    /\ ServiceInit

SpecMisconfigured == InitMisconfigured /\ [][Next]_vars

-----------------------------------------------------------------------------
(* C24  Misconfigured limit: with limit <= 0 every check_and_consume, on any *)
(* key and in both backends, returns a result (no exception), and the result *)
(* is allowed = false, remaining = 0, retry_after = window_seconds; no       *)
(* record is stored.                                                         *)

MisconfiguredLimit ==
    rate_limit_requests <= 0 =>
        /\ \A k \in Keys : requests[k] = <<>> /\ zset[k] = {} /\ admitted[k] = <<>>
        /\ Consumed =>
              /\ ~last.allowed
              /\ last.remaining = 0
              /\ last.retry_after = rate_limit_window_seconds

\* the Redis backend, limit -1 and a window of two seconds: the call returned
MisconfiguredLimitWitness ==
    /\ backend = "redis"
    /\ rate_limit_requests = -1
    /\ rate_limit_window_seconds = 2
    /\ Consumed
    /\ last.retry_after = 2
    /\ clock > 0

-----------------------------------------------------------------------------
(* Lazy cleanup.  A key that was used is accessed again: Access(k) is a      *)
(* get_remaining on the key whose return value nobody records.  The          *)
(* specification assumes of every key that such an access keeps coming.      *)

Access(k) ==
    /\ IF backend = "memory"
       THEN /\ SetRequests(k, MemGetRemaining(requests[k], rate_limit_requests,
                                              rate_limit_window_seconds, clock).store)
            /\ UNCHANGED <<zset, expire_at>>
       ELSE /\ KeyAfterScript(k, RedisGetRemaining(zset[k], rate_limit_requests,
                                                   rate_limit_window_seconds, clock).store,
                              FALSE)
            /\ UNCHANGED requests
    /\ UNCHANGED <<backend, rate_limit_requests, rate_limit_window_seconds, clock,
                   last, admitted, ncalls, ticks>>
    /\ UNCHANGED service_vars

NextPurge ==
    \/ Next
    \/ \E k \in Keys : Access(k)

SpecPurge == Init /\ [][NextPurge]_vars /\ \A k \in Keys : WF_vars(Access(k))

\* a record of the key is stored whose age exceeds window_seconds
ExpiredStored(k) == \E i \in DOMAIN Stored(k) : clock - Stored(k)[i] > WindowMs

\* number of records in s whose age at time now is at most window_ms
CountYoung(s, now) == Cardinality({i \in DOMAIN s : now - s[i] <= WindowMs})

-----------------------------------------------------------------------------
(* C25  Eventual purge: a record whose age exceeds window_seconds at the     *)
(* time of a call is not counted by the call; every such record is           *)
(* eventually removed from storage, by the next access to its key or, in the *)
(* Redis backend, by the key's expiry at most 2 * window_seconds after its   *)
(* last admission; and a key never stores more than limit records.  Holds    *)
(* for both backends.                                                        *)

\* a call counts at most the records no older than the window
OldNeverCounted ==
    [][\A k \in Keys :
          (Returned /\ last'.key = k) =>
              LET young == CountYoung(Stored(k), last'.now)
              IN  /\ last'.op = "get_remaining" =>
                        last'.remaining >= Max(0, rate_limit_requests - young)
                  /\ (last'.op = "check_and_consume" /\ young < rate_limit_requests) =>
                        last'.allowed]_vars

\* no key holds more than limit records, and a Redis key that holds one is
\* due to expire within 2 * window_seconds
StorageBounded ==
    \A k \in Keys :
        /\ Len(Stored(k)) <= rate_limit_requests
        /\ (backend = "redis" /\ zset[k] # {}) =>
              /\ expire_at[k] > clock
              /\ expire_at[k] <= clock + ExpireFactor * WindowMs

-----------------------------------------------------------------------------
(* C26  Out-of-order timestamps: a caller of the Redis backend reads its     *)
(* timestamp before its script is sent, so the scripts of one key may run in *)
(* an order different from their timestamps; even then the admitted calls    *)
(* of a key stamped inside one interval of length window_seconds number at   *)
(* most limit.  Stated of the keys whose admissions carry pairwise different *)
(* timestamps, so that no two members can coincide.  The code violates it:   *)
(* a script stamped later prunes the records that a script stamped earlier,  *)
(* run after it, would have counted.                                         *)

\* no two admissions of the key carry the same timestamp
DistinctStamps(k) ==
    \A i, j \in DOMAIN admitted[k] : i # j => admitted[k][i] # admitted[k][j]

OutOfOrderWindowBound ==
    backend = "redis" =>
        \A k \in Keys :
            DistinctStamps(k) =>
                \A i \in DOMAIN admitted[k] :
                    AdmittedInWindow(k, admitted[k][i]) <= rate_limit_requests

-----------------------------------------------------------------------------
(* C27  Charge before validation: execute_agent consults the rate limiter    *)
(* before it looks up the agent or validates the model, and nothing takes    *)
(* the record back: whenever the check admitted the request, the tenant's    *)
(* key holds a record stamped with the request's time when execute_agent     *)
(* ends, whether it ends well or in TENANT_ISOLATION_VIOLATION,              *)
(* INVALID_MODEL or an error of the LLM or the log; and a record leaves the  *)
(* key only once it is outside the window.                                   *)

\* the call that has just ended was admitted by its rate-limit check
Admitted(o) == o.result # <<>> /\ o.result[1]

ChargeBeforeValidation ==
    [][/\ \A k \in ServiceKeys :
            (Ended /\ outcome'.op = "execute_agent" /\ outcome'.key = k) =>
                /\ outcome'.looked_up => Admitted(outcome')
                /\ Admitted(outcome') =>
                      /\ outcome'.looked_up
                      /\ \E m \in zset'[k] : m[1] = outcome'.now
                      /\ Cardinality(zset'[k]) >= 1
       /\ \A k \in DOMAIN zset : \A m \in zset[k] \ zset'[k] :
            m[1] <= clock' - WindowMs]_vars

\* a request was admitted, failed with TENANT_ISOLATION_VIOLATION, and used
\* up the tenant's last token: the next call of the tenant would be denied
ChargeBeforeValidationWitness ==
    /\ outcome.op = "execute_agent"
    /\ outcome.error_code = "TENANT_ISOLATION_VIOLATION"
    /\ Admitted(outcome)
    /\ outcome.result[2] = 0
    /\ \E m \in zset[outcome.key] : m[1] = outcome.now
    /\ ~RedisCheckAndConsume(zset[outcome.key], rate_limit_requests,
                             rate_limit_window_seconds, clock, 1).allowed

-----------------------------------------------------------------------------
(* C28  Cached client is a probed client: the Redis backend sets its cached  *)
(* client only after a successful ping; after a failed connection attempt it *)
(* holds no client, so that the next call connects and pings again.  The     *)
(* code violates it: _get_client assigns _client before the ping and does    *)
(* not reset it when the ping raises, so the next call skips the ping.       *)

\* the call that has just ended failed in from_url or in the ping
ConnectionFailed(o) == o.fault \in {"from_url", "ping"}

CachedClientIsProbed ==
    [][\A o \in Owners :
          /\ (client[o] = "None" /\ client'[o] = "Redis") =>
                (outcome'.pinged /\ ~ConnectionFailed(outcome'))
          /\ (Ended /\ outcome'.owner = o /\ ConnectionFailed(outcome')) =>
                client'[o] = "None"
          /\ (Ended /\ outcome'.owner = o /\ outcome.owner = o
                /\ ConnectionFailed(outcome)
                /\ outcome'.op \in {"check_and_consume", "get_remaining"}) =>
                (outcome'.pinged \/ outcome'.fault = "from_url")]_vars

-----------------------------------------------------------------------------
(* C29  Defensive expiry is harmless: the Redis script sets the key's expiry *)
(* to 2 * window_seconds at every admission and at no other time; the        *)
(* window of every record of the key ends before the key expires, so the     *)
(* expiry never deletes a record that is still inside the window: whenever   *)
(* the key expires every record in it is older than window_seconds.  The     *)
(* callers' timestamps are never ahead of the server's clock.                *)

ExpiryIsHarmless ==
    [][\A k \in Keys :
          /\ \A m \in zset'[k] : m[1] + WindowMs < expire_at'[k]
          /\ (clock' # clock /\ zset'[k] = {}) =>
                \A m \in zset[k] : clock' - m[1] > WindowMs
          /\ (expire_at'[k] # expire_at[k] /\ expire_at'[k] # -1) =>
                /\ Returned /\ last'.op = "check_and_consume"
                /\ last'.key = k /\ last'.allowed
                /\ expire_at'[k] = clock + ExpireFactor * WindowMs]_vars

\* the last call on the key was an admission, and the key has expired since
ExpiryIsHarmlessWitness ==
    /\ backend = "redis"
    /\ Consumed /\ last.allowed
    /\ zset[last.key] = {}
    /\ expire_at[last.key] = -1
    /\ clock - last.now >= ExpireFactor * WindowMs

-----------------------------------------------------------------------------
(* Tools, agents and their links: the tables tools, agents and               *)
(* agent_tool_links, ToolRepository, AgentRepository, ToolService and        *)
(* AgentService.  A row of tools or agents is [tenant_id, name]; a link is   *)
(* <<agent_id, tool_id>>.  Ids are uuid4 values: db.uuids counts the ids     *)
(* issued, and an id is never issued twice.  Every request has a session of  *)
(* its own: the service reads what is committed, its writes are flushed      *)
(* under the constraints of the schema, and the session commits when the     *)
(* request ends or rolls back when it raised.                                *)

Names == {"x", "y"}

\* the largest number of rows the tables ever get an id for
MaxUuids == 5

\* requests whose transaction may be open at the same time
MaxSessions == 2

NotFoundError(error_code) ==
    [raised |-> "NotFoundError", status |-> 404, error_code |-> error_code,
     result |-> <<>>]

DuplicateError(error_code) ==
    [raised |-> "DuplicateError", status |-> 400, error_code |-> error_code,
     result |-> <<>>]

DependencyError(error_code) ==
    [raised |-> "DependencyError", status |-> 400, error_code |-> error_code,
     result |-> <<>>]

\* an exception e of the service layer as a service method raises it
Raises(e) ==
    [raised |-> e.raised, status |-> e.status, error_code |-> e.error_code,
     result |-> <<>>]

\* the checks of a service method passed: it goes on to write
Proceed == [raised |-> "none", status |-> 0, error_code |-> "none", result |-> <<>>]

\* a service method returned value
Returns(value) ==
    [raised |-> "none", status |-> 0, error_code |-> "none", result |-> value]

\* the rows d that a repository or service method leaves, and how it ended
Leaves(d, r) ==
    [db |-> d, raised |-> r.raised, status |-> r.status,
     error_code |-> r.error_code, result |-> r.result]

\* rows with the row row under the new id id
Insert(rows, id, row) ==
    [i \in DOMAIN rows \cup {id} |-> IF i = id THEN row ELSE rows[i]]

\* ToolRepository.get_by_id with the tenant filter left out
ToolGetByIdAnyTenant(d, tenant_id, tool_id) ==
    IF tool_id \in DOMAIN d.tools THEN tool_id ELSE 0

\* ToolRepository.get_by_id: the id of the row, 0 for None
ToolGetById(d, tenant_id, tool_id) ==
    IF tool_id \in DOMAIN d.tools /\ d.tools[tool_id].tenant_id = tenant_id
    THEN tool_id ELSE 0

\* ToolRepository.get_by_name
ToolGetByName(d, tenant_id, name) ==
    LET found == {i \in DOMAIN d.tools : /\ d.tools[i].tenant_id = tenant_id
                                         /\ d.tools[i].name = name}
    IN  IF found = {} THEN 0 ELSE CHOOSE i \in found : TRUE

\* ToolRepository.list_all
ToolListAll(d, tenant_id) ==
    {i \in DOMAIN d.tools : d.tools[i].tenant_id = tenant_id}

\* ToolRepository.list_by_agent_name: tools joined to their links and the
\* links' agents, filtered on Tool.tenant_id and Agent.name
ListByAgentName(d, tenant_id, agent_name) ==
    {i \in DOMAIN d.tools :
        /\ d.tools[i].tenant_id = tenant_id
        /\ \E l \in d.agent_tool_links :
              /\ l[2] = i
              /\ l[1] \in DOMAIN d.agents
              /\ d.agents[l[1]].name = agent_name}

\* ToolRepository.get_dependent_agents: agents joined to their links, filtered
\* on Agent.tenant_id and AgentToolLink.tool_id
GetDependentAgents(d, tenant_id, tool_id) ==
    {a \in DOMAIN d.agents : /\ d.agents[a].tenant_id = tenant_id
                             /\ <<a, tool_id>> \in d.agent_tool_links}

\* AgentRepository.get_by_id
AgentGetById(d, tenant_id, agent_id) ==
    IF agent_id \in DOMAIN d.agents /\ d.agents[agent_id].tenant_id = tenant_id
    THEN agent_id ELSE 0

\* AgentRepository.get_by_name
AgentGetByName(d, tenant_id, name) ==
    LET found == {i \in DOMAIN d.agents : /\ d.agents[i].tenant_id = tenant_id
                                          /\ d.agents[i].name = name}
    IN  IF found = {} THEN 0 ELSE CHOOSE i \in found : TRUE

\* AgentRepository.list_all
AgentListAll(d, tenant_id) ==
    {i \in DOMAIN d.agents : d.agents[i].tenant_id = tenant_id}

\* AgentRepository.list_by_tool_name: agents joined to their links and the
\* links' tools, filtered on Agent.tenant_id and Tool.name
ListByToolName(d, tenant_id, tool_name) ==
    {i \in DOMAIN d.agents :
        /\ d.agents[i].tenant_id = tenant_id
        /\ \E l \in d.agent_tool_links :
              /\ l[1] = i
              /\ l[2] \in DOMAIN d.tools
              /\ d.tools[l[2]].name = tool_name}

\* selectinload(Agent.tool_links).selectinload(AgentToolLink.tool): the tools an
\* agent is returned with
LoadedTools(d, agent_id) ==
    {l[2] : l \in {m \in d.agent_tool_links : m[1] = agent_id}}

\* UniqueConstraint("tenant_id", "name") of tools and of agents: no row but
\* the one with id except_id has this tenant and name
NameIsFree(rows, tenant_id, name, except_id) ==
    \A i \in DOMAIN rows \ {except_id} :
        ~(rows[i].tenant_id = tenant_id /\ rows[i].name = name)

\* agent_tool_links.tool_id REFERENCES tools(id): every tool id of a new link
\* is the id of a row of tools
ToolsExist(d, tool_ids) == \A i \in tool_ids : i \in DOMAIN d.tools

\* ON DELETE RESTRICT of agent_tool_links.tool_id: a row of tools that a link
\* refers to cannot be deleted
Restricted(d, tool_id) == \E l \in d.agent_tool_links : l[2] = tool_id

\* a flush that the schema refused: nothing is written
IntegrityError(d) ==
    [db |-> d, raised |-> "IntegrityError", status |-> 0, error_code |-> "none",
     result |-> <<>>]

\* ToolRepository.create
ToolRepositoryCreate(d, tenant_id, name) ==
    IF ~NameIsFree(d.tools, tenant_id, name, 0) THEN IntegrityError(d)
    ELSE LET id == d.uuids + 1
         IN  Leaves([d EXCEPT !.tools = Insert(@, id, [tenant_id |-> tenant_id,
                                                       name |-> name]),
                              !.uuids = id],
                    Returns(<<id>>))

\* ToolRepository.update: None when the row is gone
ToolRepositoryUpdate(d, tenant_id, tool_id, name) ==
    IF ToolGetById(d, tenant_id, tool_id) = 0 THEN Leaves(d, Returns(<<>>))
    ELSE IF name # "None" /\ ~NameIsFree(d.tools, tenant_id, name, tool_id)
    THEN IntegrityError(d)
    ELSE Leaves(IF name # "None"
                THEN [d EXCEPT !.tools[tool_id].name = name] ELSE d,
                Returns(<<tool_id>>))

\* ToolRepository.delete: False when the row is gone
ToolRepositoryDelete(d, tenant_id, tool_id) ==
    IF ToolGetById(d, tenant_id, tool_id) = 0 THEN Leaves(d, Returns(<<FALSE>>))
    ELSE IF Restricted(d, tool_id) THEN IntegrityError(d)
    ELSE Leaves([d EXCEPT !.tools = Restrict(@, DOMAIN @ \ {tool_id})],
                Returns(<<TRUE>>))

\* AgentRepository.create: the agent is flushed, then its links
AgentRepositoryCreate(d, tenant_id, name, tool_ids) ==
    IF ~NameIsFree(d.agents, tenant_id, name, 0) \/ ~ToolsExist(d, tool_ids)
    THEN IntegrityError(d)
    ELSE LET id == d.uuids + 1
         IN  Leaves([d EXCEPT !.agents = Insert(@, id, [tenant_id |-> tenant_id,
                                                        name |-> name]),
                              !.agent_tool_links =
                                  @ \cup {<<id, t>> : t \in tool_ids},
                              !.uuids = id],
                    Returns(<<id, tool_ids>>))

\* AgentRepository.update: tool_ids is <<>> for None and <<ids>> for a list,
\* which replaces every link of the agent
AgentRepositoryUpdate(d, tenant_id, agent_id, name, tool_ids) ==
    IF AgentGetById(d, tenant_id, agent_id) = 0 THEN Leaves(d, Returns(<<>>))
    ELSE IF \/ name # "None" /\ ~NameIsFree(d.agents, tenant_id, name, agent_id)
            \/ tool_ids # <<>> /\ ~ToolsExist(d, tool_ids[1])
    THEN IntegrityError(d)
    ELSE LET named == IF name # "None"
                      THEN [d EXCEPT !.agents[agent_id].name = name] ELSE d
             linked == IF tool_ids = <<>> THEN named
                       ELSE [named EXCEPT !.agent_tool_links =
                                {l \in @ : l[1] # agent_id}
                                    \cup {<<agent_id, t>> : t \in tool_ids[1]}]
         IN  Leaves(linked, Returns(<<agent_id, LoadedTools(linked, agent_id)>>))

\* AgentRepository.delete: the agent's links go with it (cascade "all,
\* delete-orphan", ON DELETE CASCADE)
AgentRepositoryDelete(d, tenant_id, agent_id) ==
    IF AgentGetById(d, tenant_id, agent_id) = 0 THEN Leaves(d, Returns(<<FALSE>>))
    ELSE Leaves([d EXCEPT !.agents = Restrict(@, DOMAIN @ \ {agent_id}),
                          !.agent_tool_links = {l \in @ : l[1] # agent_id}],
                Returns(<<TRUE>>))

\* the ownership check of create_agent and update_agent left out
ForeignToolsUnchecked(d, tenant_id, tool_ids) == {}

\* for tool_id in data.tool_ids: tool_repository.get_by_id(tenant_id, tool_id) is
\* None; the tool ids of the request that are no tool of the tenant
ForeignTools(d, tenant_id, tool_ids) ==
    {t \in tool_ids : ToolGetById(d, tenant_id, t) = 0}

\* ToolService.create_tool up to its write
CreateToolChecks(d, tenant_id, name) ==
    IF ToolGetByName(d, tenant_id, name) # 0
    THEN DuplicateError("DUPLICATE_TOOL_NAME") ELSE Proceed

\* ToolService.create_tool from repository.create on
CreateToolWrites(d, tenant_id, name) ==
    LET r == ToolRepositoryCreate(d, tenant_id, name)
    IN  IF r.raised = "IntegrityError"
        THEN Leaves(d, DuplicateError("DUPLICATE_TOOL_NAME")) ELSE r

\* ToolService.get_tool
GetTool(d, tenant_id, tool_id) ==
    IF ToolGetById(d, tenant_id, tool_id) = 0
    THEN NotFoundError("TOOL_NOT_FOUND") ELSE Returns(<<tool_id>>)

\* ToolService.list_tools: agent_name is "None" without the filter
ListTools(d, tenant_id, agent_name) ==
    Returns(<<IF agent_name # "None" THEN ListByAgentName(d, tenant_id, agent_name)
              ELSE ToolListAll(d, tenant_id)>>)

\* ToolService.update_tool up to its write
UpdateToolChecks(d, tenant_id, tool_id, name) ==
    IF GetTool(d, tenant_id, tool_id).raised # "none"
    THEN GetTool(d, tenant_id, tool_id)
    ELSE IF name # "None" /\ ToolGetByName(d, tenant_id, name) \notin {0, tool_id}
    THEN DuplicateError("DUPLICATE_TOOL_NAME")
    ELSE Proceed

\* ToolService.update_tool from repository.update on
UpdateToolWrites(d, tenant_id, tool_id, name) ==
    LET r == ToolRepositoryUpdate(d, tenant_id, tool_id, name)
    IN  IF r.raised = "IntegrityError"
        THEN Leaves(d, DuplicateError("DUPLICATE_TOOL_NAME"))
        ELSE IF r.result = <<>>
        THEN Leaves(d, NotFoundError("TOOL_NOT_FOUND"))
        ELSE r

\* ToolService.delete_tool up to its write
DeleteToolChecks(d, tenant_id, tool_id) ==
    IF GetTool(d, tenant_id, tool_id).raised # "none"
    THEN GetTool(d, tenant_id, tool_id)
    ELSE IF GetDependentAgents(d, tenant_id, tool_id) # {}
    THEN DependencyError("TOOL_IN_USE")
    ELSE Proceed

\* ToolService.delete_tool from repository.delete on: a refused flush is caught
\* by nobody up to the generic exception handler
DeleteToolWrites(d, tenant_id, tool_id) ==
    LET r == ToolRepositoryDelete(d, tenant_id, tool_id)
    IN  IF r.raised = "IntegrityError"
        THEN Leaves(d, Raises(InternalServerError("IntegrityError")))
        ELSE IF r.result = <<FALSE>>
        THEN Leaves(d, NotFoundError("TOOL_NOT_FOUND"))
        ELSE Leaves(r.db, Returns(<<>>))

\* AgentService.create_agent up to its write: the name first, then the tools
CreateAgentChecks(d, tenant_id, name, tool_ids) ==
    IF AgentGetByName(d, tenant_id, name) # 0
    THEN DuplicateError("DUPLICATE_AGENT_NAME")
    ELSE IF ForeignTools(d, tenant_id, tool_ids[1]) # {}
    THEN Raises(ForbiddenError("CROSS_TENANT_TOOL"))
    ELSE Proceed

\* AgentService.create_agent from repository.create on
CreateAgentWrites(d, tenant_id, name, tool_ids) ==
    LET r == AgentRepositoryCreate(d, tenant_id, name, tool_ids[1])
    IN  IF r.raised = "IntegrityError"
        THEN Leaves(d, DuplicateError("DUPLICATE_AGENT_NAME")) ELSE r

\* AgentService.get_agent: the agent and the tools it is loaded with
GetAgent(d, tenant_id, agent_id) ==
    IF AgentGetById(d, tenant_id, agent_id) = 0
    THEN NotFoundError("AGENT_NOT_FOUND")
    ELSE Returns(<<agent_id, LoadedTools(d, agent_id)>>)

\* AgentService.list_agents: tool_name is "None" without the filter
ListAgents(d, tenant_id, tool_name) ==
    Returns(<<IF tool_name # "None" THEN ListByToolName(d, tenant_id, tool_name)
              ELSE AgentListAll(d, tenant_id)>>)

\* AgentService.update_agent up to its write: the agent, the name, the tools
UpdateAgentChecks(d, tenant_id, agent_id, name, tool_ids) ==
    IF GetAgent(d, tenant_id, agent_id).raised # "none"
    THEN GetAgent(d, tenant_id, agent_id)
    ELSE IF name # "None" /\ AgentGetByName(d, tenant_id, name) \notin {0, agent_id}
    THEN DuplicateError("DUPLICATE_AGENT_NAME")
    ELSE IF tool_ids # <<>> /\ ForeignTools(d, tenant_id, tool_ids[1]) # {}
    THEN Raises(ForbiddenError("CROSS_TENANT_TOOL"))
    ELSE Proceed

\* AgentService.update_agent from repository.update on
UpdateAgentWrites(d, tenant_id, agent_id, name, tool_ids) ==
    LET r == AgentRepositoryUpdate(d, tenant_id, agent_id, name, tool_ids)
    IN  IF r.raised = "IntegrityError"
        THEN Leaves(d, DuplicateError("DUPLICATE_AGENT_NAME"))
        ELSE IF r.result = <<>>
        THEN Leaves(d, NotFoundError("AGENT_NOT_FOUND"))
        ELSE r

\* AgentService.delete_agent up to its write
DeleteAgentChecks(d, tenant_id, agent_id) ==
    IF GetAgent(d, tenant_id, agent_id).raised # "none"
    THEN GetAgent(d, tenant_id, agent_id) ELSE Proceed

\* AgentService.delete_agent from repository.delete on
DeleteAgentWrites(d, tenant_id, agent_id) ==
    LET r == AgentRepositoryDelete(d, tenant_id, agent_id)
    IN  IF r.result = <<FALSE>>
        THEN Leaves(d, NotFoundError("AGENT_NOT_FOUND"))
        ELSE Leaves(r.db, Returns(<<>>))

\* the service methods that write nothing
Reads == {"get_tool", "list_tools", "get_agent", "list_agents"}

CrudOps == Reads \cup {"create_tool", "update_tool", "delete_tool",
                       "create_agent", "update_agent", "delete_agent"}

\* a call of a service method by the tenant the request was authenticated as
Request(op, tenant_id, id, name, tool_ids) ==
    [op |-> op, owner |-> tenant_id, value |-> id, name |-> name,
     tool_ids |-> tool_ids]

\* the method of q up to its first write, on the committed rows d
Checks(d, q) ==
    CASE q.op = "create_tool" -> CreateToolChecks(d, q.owner, q.name)
      [] q.op = "get_tool" -> GetTool(d, q.owner, q.value)
      [] q.op = "list_tools" -> ListTools(d, q.owner, q.name)
      [] q.op = "update_tool" -> UpdateToolChecks(d, q.owner, q.value, q.name)
      [] q.op = "delete_tool" -> DeleteToolChecks(d, q.owner, q.value)
      [] q.op = "create_agent" -> CreateAgentChecks(d, q.owner, q.name, q.tool_ids)
      [] q.op = "get_agent" -> GetAgent(d, q.owner, q.value)
      [] q.op = "list_agents" -> ListAgents(d, q.owner, q.name)
      [] q.op = "update_agent" ->
            UpdateAgentChecks(d, q.owner, q.value, q.name, q.tool_ids)
      [] q.op = "delete_agent" -> DeleteAgentChecks(d, q.owner, q.value)

\* the method of q from its write on, on the committed rows d
Writes(d, q) ==
    CASE q.op = "create_tool" -> CreateToolWrites(d, q.owner, q.name)
      [] q.op = "update_tool" -> UpdateToolWrites(d, q.owner, q.value, q.name)
      [] q.op = "delete_tool" -> DeleteToolWrites(d, q.owner, q.value)
      [] q.op = "create_agent" -> CreateAgentWrites(d, q.owner, q.name, q.tool_ids)
      [] q.op = "update_agent" ->
            UpdateAgentWrites(d, q.owner, q.value, q.name, q.tool_ids)
      [] q.op = "delete_agent" -> DeleteAgentWrites(d, q.owner, q.value)

\* the request q ended in its step as r says: r.db is what is committed (a
\* request that raised is rolled back)
RequestEnds(q, step, r) ==
    /\ db' = r.db
    /\ outcome' = [NoOutcome EXCEPT !.seq = outcome.seq + 1, !.now = clock,
                                    !.step = step, !.op = q.op, !.owner = q.owner,
                                    !.value = q.value, !.name = q.name,
                                    !.tool_ids = q.tool_ids, !.raised = r.raised,
                                    !.status = r.status,
                                    !.error_code = r.error_code,
                                    !.result = r.result]

\* a request arrives: it ends at once when it only reads or a check fails,
\* and otherwise its transaction stays open
Begin(q) ==
    /\ outcome.seq + Len(sessions) < MaxRequests
    /\ LET r == Checks(db, q)
       IN  IF r.raised # "none" \/ q.op \in Reads
           THEN /\ RequestEnds(q, "check", Leaves(db, r))
                /\ UNCHANGED sessions
           ELSE /\ Len(sessions) < MaxSessions
                /\ sessions' = Append(sessions, q)
                /\ UNCHANGED <<db, outcome>>
    /\ UNCHANGED <<backend, rate_limit_requests, rate_limit_window_seconds, clock,
                   requests, zset, expire_at, last, admitted, ncalls, ticks,
                   client, shadow, api_keys, tenants>>

\* the open request s writes, and its session commits or rolls back
Commit(s) ==
    /\ s \in DOMAIN sessions
    /\ RequestEnds(sessions[s], "write", Writes(db, sessions[s]))
    /\ sessions' = SubSeq(sessions, 1, s - 1) \o SubSeq(sessions, s + 1, Len(sessions))
    /\ UNCHANGED <<backend, rate_limit_requests, rate_limit_window_seconds, clock,
                   requests, zset, expire_at, last, admitted, ncalls, ticks,
                   client, shadow, api_keys, tenants>>

\* the ids a request can name: those of the rows, and one of no row
IdArgs(rows) == DOMAIN rows \cup {0}

\* tool_ids of AgentCreate: a list; of AgentUpdate: a list or None
ToolIdLists == {<<ids>> : ids \in SUBSET IdArgs(db.tools)}

CreateTool(tenant_id, name) ==
    /\ db.uuids < MaxUuids
    /\ Begin(Request("create_tool", tenant_id, -1, name, <<>>))

GetToolRequest(tenant_id, tool_id) ==
    Begin(Request("get_tool", tenant_id, tool_id, "None", <<>>))

ListToolsRequest(tenant_id, agent_name) ==
    Begin(Request("list_tools", tenant_id, -1, agent_name, <<>>))

UpdateTool(tenant_id, tool_id, name) ==
    Begin(Request("update_tool", tenant_id, tool_id, name, <<>>))

DeleteTool(tenant_id, tool_id) ==
    Begin(Request("delete_tool", tenant_id, tool_id, "None", <<>>))

CreateAgent(tenant_id, name, tool_ids) ==
    /\ db.uuids < MaxUuids
    /\ Begin(Request("create_agent", tenant_id, -1, name, tool_ids))

GetAgentRequest(tenant_id, agent_id) ==
    Begin(Request("get_agent", tenant_id, agent_id, "None", <<>>))

ListAgentsRequest(tenant_id, tool_name) ==
    Begin(Request("list_agents", tenant_id, -1, tool_name, <<>>))

UpdateAgent(tenant_id, agent_id, name, tool_ids) ==
    Begin(Request("update_agent", tenant_id, agent_id, name, tool_ids))

DeleteAgent(tenant_id, agent_id) ==
    Begin(Request("delete_agent", tenant_id, agent_id, "None", <<>>))

\* the rows that create_tool for tenant a, create_tool for tenant b and
\* create_agent for tenant a with a's tool leave in empty tables
SeededRows ==
    [tools |-> <<[tenant_id |-> "a", name |-> "x"], [tenant_id |-> "b", name |-> "x"]>>,
     agents |-> (3 :> [tenant_id |-> "a", name |-> "x"]),
     agent_tool_links |-> {<<3, 1>>},
     uuids |-> 3]

InitCrud ==
    /\ backend = "memory"
    /\ rate_limit_requests \in {DefaultLimit}
    /\ rate_limit_window_seconds \in {DefaultWindowSeconds}
    /\ clock = 0
    /\ requests = [k \in Keys |-> <<>>]
    /\ zset = [k \in Keys |-> {}]
    /\ expire_at = [k \in Keys |-> -1]
    /\ last = NoCall
    /\ admitted = [k \in Keys |-> <<>>]
    /\ ncalls = [k \in Keys |-> 0]
    /\ ticks = 0
    /\ client = [o \in Owners |-> "None"]
    /\ outcome = NoOutcome
    /\ shadow = <<>>
    /\ api_keys = <<>>
    /\ tenants = [t \in Tenants |-> TRUE]
    /\ db = SeededRows
    /\ sessions = <<>>

NextCrud ==
    \/ \E t \in Tenants, name \in Names : CreateTool(t, name)
    \/ \E t \in Tenants, id \in IdArgs(db.tools) : GetToolRequest(t, id)
    \/ \E t \in Tenants, name \in Names \cup {"None"} : ListToolsRequest(t, name)
    \/ \E t \in Tenants, id \in IdArgs(db.tools), name \in Names \cup {"None"} :
          UpdateTool(t, id, name)
    \/ \E t \in Tenants, id \in IdArgs(db.tools) : DeleteTool(t, id)
    \/ \E t \in Tenants, name \in Names, tool_ids \in ToolIdLists :
          CreateAgent(t, name, tool_ids)
    \/ \E t \in Tenants, id \in IdArgs(db.agents) : GetAgentRequest(t, id)
    \/ \E t \in Tenants, name \in Names \cup {"None"} : ListAgentsRequest(t, name)
    \/ \E t \in Tenants, id \in IdArgs(db.agents), name \in Names \cup {"None"},
          tool_ids \in ToolIdLists \cup {<<>>} : UpdateAgent(t, id, name, tool_ids)
    \/ \E t \in Tenants, id \in IdArgs(db.agents) : DeleteAgent(t, id)
    \/ \E s \in DOMAIN sessions : Commit(s)

SpecCrud == InitCrud /\ [][NextCrud]_vars

-----------------------------------------------------------------------------
(* C21  Tenant isolation of tools and agents: whatever ToolService and       *)
(* AgentService have done before, a call made for one tenant never reads,    *)
(* lists, updates or deletes a tool or agent of another tenant: get, update  *)
(* and delete of another tenant's id raise NotFoundError (404,               *)
(* TOOL_NOT_FOUND or AGENT_NOT_FOUND) and change nothing, a list and a get   *)
(* return only rows of the caller's tenant, and no call changes a row or a   *)
(* link of another tenant.                                                   *)

\* the row id of rows belongs to a tenant other than tenant_id
OfAnotherTenant(rows, id, tenant_id) ==
    id \in DOMAIN rows /\ rows[id].tenant_id # tenant_id

\* this step keeps every tool, agent and link of the tenants other than
\* tenant_id as it was, and gives their agents no new link
OthersUntouched(tenant_id) ==
    /\ \A i \in DOMAIN db.tools :
          db.tools[i].tenant_id # tenant_id =>
              i \in DOMAIN db'.tools /\ db'.tools[i] = db.tools[i]
    /\ \A i \in DOMAIN db.agents :
          db.agents[i].tenant_id # tenant_id =>
              /\ i \in DOMAIN db'.agents /\ db'.agents[i] = db.agents[i]
              /\ \A t \in DOMAIN db.tools \cup DOMAIN db'.tools :
                    <<i, t>> \in db.agent_tool_links <=> <<i, t>> \in db'.agent_tool_links

-----------------------------------------------------------------------------
(* C30  Agent-tool link integrity: after any sequence and interleaving of    *)
(* create_agent, update_agent and delete_tool, every agent-tool link refers  *)
(* to an agent and a tool that exist and have the same tenant; delete_tool   *)
(* on a tool that a link still refers to raises TOOL_IN_USE and deletes      *)
(* nothing; create_agent and update_agent with a tool id that is not a tool  *)
(* of the caller's tenant raise CROSS_TENANT_TOOL and write nothing.         *)

\* every link is between an agent and a tool of one tenant
LinksAreSound ==
    \A l \in db.agent_tool_links :
        /\ l[1] \in DOMAIN db.agents
        /\ l[2] \in DOMAIN db.tools
        /\ db.agents[l[1]].tenant_id = db.tools[l[2]].tenant_id

\* o is a delete_tool of a tool of the caller that a link refers to
DeletesLinkedTool(o) ==
    /\ o.op = "delete_tool"
    /\ o.value \in DOMAIN db.tools
    /\ db.tools[o.value].tenant_id = o.owner
    /\ \E l \in db.agent_tool_links : l[2] = o.value

\* o is a create_agent or update_agent that names a tool id which is no tool
\* of the caller's tenant
NamesForeignTool(o) ==
    /\ o.op \in {"create_agent", "update_agent"}
    /\ o.tool_ids # <<>>
    /\ \E t \in o.tool_ids[1] :
          ~(t \in DOMAIN db.tools /\ db.tools[t].tenant_id = o.owner)

LinkIntegrity ==
    /\ []LinksAreSound
    /\ [][(Ended /\ outcome'.op \in CrudOps) =>
             /\ DeletesLinkedTool(outcome') =>
                   /\ outcome'.raised = "DependencyError"
                   /\ outcome'.error_code = "TOOL_IN_USE"
                   /\ db' = db
             /\ NamesForeignTool(outcome') =>
                   /\ outcome'.raised = "ForbiddenError"
                   /\ outcome'.error_code = "CROSS_TENANT_TOOL"
                   /\ db' = db]_vars

\* what holds of these calls in every interleaving: nothing is deleted or
\* written, and the call raises
LinkedCallsWriteNothing ==
    [][(Ended /\ outcome'.op \in CrudOps
          /\ (DeletesLinkedTool(outcome') \/ NamesForeignTool(outcome'))) =>
             outcome'.raised # "none" /\ db' = db]_vars

\* a delete_tool passed its dependency check, a create_agent linked the tool,
\* and the delete was refused by the foreign key
DeleteOvertaken ==
    /\ outcome.op = "delete_tool"
    /\ outcome.step = "write"
    /\ outcome.status = 500
    /\ outcome.value \in DOMAIN db.tools
    /\ \E l \in db.agent_tool_links : l[2] = outcome.value

====
